---- MODULE Spec2Model ----
(***************************************************************************)
(* Better Drinking Bird: the supervisor's decision engine.                 *)
(*                                                                         *)
(* One invocation handles one hook event and exits.  The model keeps the   *)
(* files that outlive an invocation (pause sentinels, mode file) and the   *)
(* record of the call in progress.  Commands and texts are sequences of    *)
(* whitespace-separated tokens; every regular expression of the source is  *)
(* evaluated on the spelling of those tokens (Chars).                      *)
(***************************************************************************)
EXTENDS Naturals, Integers, Sequences, FiniteSets, TLC

VARIABLES pc, call, out, localSentinel, globalSentinel, modeFile

vars == <<pc, call, out, localSentinel, globalSentinel, modeFile>>

(***************************************************************************)
(* Bounds                                                                  *)
(***************************************************************************)
\* number of free arguments appended to a command prefix
MaxArgs == 2

\* number of categories a configuration switches off at once
MaxDisabled == 1

\* number of free words appended to an assistant phrase
MaxWords == 1

\* number of lines of a transcript file
MaxLines == 2

\* the entries under .git/worktrees
MaxWorktrees == 2

(***************************************************************************)
(* Spelling of the tokens (the commands' words and the literals of the     *)
(* regular expressions)                                                    *)
(***************************************************************************)
\* the characters of a token, one string of length one each
Chars(t) == [k \in 1..Len(t) |-> SubSeq(t, k, k)]

\* the tokens the commands and texts are made of, separated by blanks, in rows
VocabText ==
   <<"git GIT checkout co switch sw main reset RESET --hard --HARD log ",
     "status diff commit --no-verify add -p blame rm -rf / cat .env ",
     "chmod +x pre-commit ls base64 -d curl u | bash . -- a.py -c ",
     "--oneline node_modules HEAD~1 HUSKY=0 sed -i clean -f restore ",
     "push --force branch rebase master --create -r -fr --decode xxd ",
     "wget sh zsh --no-gpg-sign --skip-hooks PRE_COMMIT_ALLOW_NO_CONFIG ",
     "awk perl ed tee pre /dev/sd > ~ * credentials .pem _rsa head~ ",
     "eval $( : = 0 husky -o - .git/hooks/ .github/workflows/ ",
     ".git/hooks/x a/.git/hooks/x .github/workflows/ci.yml notes.txt ",
     "rm-rf-docs.md cat> :main :master husky=0 =0 husky= echo -D ",
     ">/dev/sd exec dist build .cache __pycache__ .pytest_cache ",
     "coverage .next .nuxt target vendor ./node_modules node_modules/ ",
     "exec(x.decode decode -s x|sh (b decode) ) curl|sh /.git/hooks/ ",
     "/.github/workflows/ if steps ready feedback should proceed would ",
     "to want like let awaiting waiting please know do shall ahead I ",
     "you what I'm next ? time now I've progress work summary due ",
     "complexity session 2 All Awaiting Do Done Due If Let Next Now ",
     "Please Ready Shall Should The What Would advise also am ",
     "architecture assist begin can coming complete complete. confirm ",
     "continue design done execute feedback. follows for foundation ",
     "further go good groundwork have help implement is made me pass ",
     "plan recap save setup solid start steps? tests the this two we ",
     "when your helpif hi why? 22 forever unready done. done.. Task ",
     "Agent asks a question finished all task accomplished cannot ",
     "access requires human needs credential external unanswerable ",
     "impossible no way user preference personal choice need ",
     "requirements spec answer interactive clarification needed ",
     "Implement @docs/plan.md see @README.md @missing.md fix it">>

\* the words of a text: its maximal runs without a blank
RECURSIVE Split(_, _, _)
Split(s, from, k) ==
   IF k > Len(s) THEN (IF from < k THEN {SubSeq(s, from, k - 1)} ELSE {})
   ELSE IF SubSeq(s, k, k) = " "
      THEN (IF from < k THEN {SubSeq(s, from, k - 1)} ELSE {}) \cup Split(s, k + 1, k + 1)
   ELSE Split(s, from, k + 1)

Vocab == UNION {Split(VocabText[n], 1, 1) : n \in 1..Len(VocabText)}

Upper == "ABCDEFGHIJKLMNOPQRSTUVWXYZ"

Lower == "abcdefghijklmnopqrstuvwxyz"

\* the characters of a text, as a set
Letters(s) == {SubSeq(s, k, k) : k \in 1..Len(s)}

\* \w of the re module
WordChars == Letters(Upper) \cup Letters(Lower) \cup Letters("_0123456789")

\* the lower-case letter of each upper-case letter
UpperToLower ==
   [c \in Letters(Upper) |->
       LET k == CHOOSE k \in 1..Len(Upper) : SubSeq(Upper, k, k) = c
       IN  SubSeq(Lower, k, k)]

\* re.IGNORECASE folds both sides to one case
Low(c) == IF c \in DOMAIN UpperToLower THEN UpperToLower[c] ELSE c

LowSeq(s) == [k \in 1..Len(s) |-> Low(s[k])]

\* the spelling a pattern compares: folded when ci (re.IGNORECASE)
Spell(t, ci) == IF ci THEN LowSeq(Chars(t)) ELSE Chars(t)

\* literal w occurs in s starting at index k
OccursAt(s, w, k) ==
   /\ k >= 1
   /\ k + Len(w) - 1 <= Len(s)
   /\ \A n \in 1..Len(w) : s[k + n - 1] = w[n]

\* \b after an occurrence of w at k (w ends in a word character)
BoundaryAfter(s, w, k) ==
   \/ k + Len(w) > Len(s)
   \/ s[k + Len(w)] \notin WordChars

\* tokens spelled exactly w
Eq(w, ci) == {t \in Vocab : Spell(t, ci) = Spell(w, ci)}

\* tokens ending in w: a pattern may start inside a token
Ends(w, ci) ==
   {t \in Vocab : OccursAt(Spell(t, ci), Spell(w, ci), Len(Chars(t)) - Len(Chars(w)) + 1)}

\* tokens starting with w: a pattern may end inside a token
Starts(w, ci) == {t \in Vocab : OccursAt(Spell(t, ci), Spell(w, ci), 1)}

\* tokens starting with w followed by \b
StartsB(w, ci) ==
   {t \in Vocab : /\ OccursAt(Spell(t, ci), Spell(w, ci), 1)
                  /\ BoundaryAfter(Spell(t, ci), Spell(w, ci), 1)}

\* tokens containing w
Has(w, ci) ==
   {t \in Vocab : \E k \in 1..Len(Chars(t)) : OccursAt(Spell(t, ci), Spell(w, ci), k)}

\* tokens containing w followed by \b
HasB(w, ci) ==
   {t \in Vocab : \E k \in 1..Len(Chars(t)) :
        /\ OccursAt(Spell(t, ci), Spell(w, ci), k)
        /\ BoundaryAfter(Spell(t, ci), Spell(w, ci), k)}

\* tokens containing pre<any character>commit
HasPreCommit(ci) ==
   {t \in Vocab : \E k \in 1..Len(Chars(t)) :
        /\ OccursAt(Spell(t, ci), Spell("pre", ci), k)
        /\ OccursAt(Spell(t, ci), Spell("commit", ci), k + 4)}

(***************************************************************************)
(* A regular expression over a token sequence: consecutive tokens drawn    *)
(* from seq[1..n] (the \s+ of the pattern are the token separators), then, *)
(* if then is not empty, later consecutive tokens drawn from then (a ".*"  *)
(* before more literals; thenEnd when these are followed by \s*$), and no  *)
(* token from the last one of seq on in never (a negative lookahead        *)
(* "(?!.*X)"); anchor "^" ties the match to the first token, "$" to the    *)
(* last one.                                                               *)
(***************************************************************************)
Pat(seq) ==
   [seq |-> seq, then |-> <<>>, thenEnd |-> FALSE, never |-> {}, anchor |-> ""]

PatLater(seq, later) ==
   [seq |-> seq, then |-> <<later>>, thenEnd |-> FALSE, never |-> {}, anchor |-> ""]

PatThen(seq, then, thenEnd) ==
   [seq |-> seq, then |-> then, thenEnd |-> thenEnd, never |-> {}, anchor |-> ""]

PatNever(seq, never) ==
   [seq |-> seq, then |-> <<>>, thenEnd |-> FALSE, never |-> never, anchor |-> ""]

\* the pattern starts with ^
PatStart(seq) ==
   [seq |-> seq, then |-> <<>>, thenEnd |-> FALSE, never |-> {}, anchor |-> "^"]

\* the pattern ends with \s*$
PatEnd(seq) ==
   [seq |-> seq, then |-> <<>>, thenEnd |-> FALSE, never |-> {}, anchor |-> "$"]

\* the tokens of xs occur consecutively in text from index j on
RunAt(text, j, xs) ==
   /\ j + Len(xs) - 1 <= Len(text)
   /\ \A k \in 1..Len(xs) : text[j + k - 1] \in xs[k]

MatchAt(text, i, p) ==
   /\ RunAt(text, i, p.seq)
   /\ p.then # <<>> =>
         \E j \in (i + Len(p.seq))..Len(text) :
            /\ RunAt(text, j, p.then)
            /\ p.thenEnd => j + Len(p.then) - 1 = Len(text)
   /\ \A j \in (i + Len(p.seq) - 1)..Len(text) : text[j] \notin p.never
   /\ p.anchor = "^" => i = 1
   /\ p.anchor = "$" => i + Len(p.seq) - 1 = Len(text)

\* re.search(pattern, text): the alternatives of one pattern, at any position
Search(alts, text) == \E p \in alts : \E i \in 1..Len(text) : MatchAt(text, i, p)

(***************************************************************************)
(* safety/patterns.py: the pattern catalog                                 *)
(***************************************************************************)
\* any token (\S+ between two \s+)
AnyToken == Vocab

GitEnd == Ends("git", TRUE)

\* a verb pattern that knows the full name only
CO_full_name_only == Eq("checkout", TRUE)

\* _CO = (?:checkout|co)
CO == Eq("checkout", TRUE) \cup Eq("co", TRUE)

\* _SW = (?:switch|sw)
SW == Eq("switch", TRUE) \cup Eq("sw", TRUE)

\* (?:sed|awk|perl|ed|cat\s*>|echo\s.*>|tee)\s.*pre.commit, the alternatives
\* whose editor is a single token
EditorEnd ==
   Ends("sed", TRUE) \cup Ends("awk", TRUE) \cup Ends("perl", TRUE)
      \cup Ends("ed", TRUE) \cup Ends("tee", TRUE) \cup Ends("cat>", TRUE)

\* (?!-[cC]\b)(?!--create\b)\S
NotCreateFlag == Vocab \ (StartsB("-c", TRUE) \cup StartsB("--create", TRUE))

\* (?!--)[\w\-/]
RefStart ==
   {t \in Vocab \ Starts("--", TRUE) : Chars(t)[1] \in WordChars \cup {"-", "/"}}

\* \S+:(main|master)\b
ToMainRefspec ==
   {t \in Vocab : \E k \in 2..Len(Chars(t)) :
      \/ /\ OccursAt(Spell(t, TRUE), Spell(":main", TRUE), k)
         /\ BoundaryAfter(Spell(t, TRUE), Spell(":main", TRUE), k)
      \/ /\ OccursAt(Spell(t, TRUE), Spell(":master", TRUE), k)
         /\ BoundaryAfter(Spell(t, TRUE), Spell(":master", TRUE), k)}

\* (?!\.(?:\s|$))\S
NotBareDot == Vocab \ Eq(".", TRUE)

Rule(category, reason, alts) == [category |-> category, reason |-> reason, alts |-> alts]

SAFETY_CATEGORIES ==
   [ci_bypass |-> <<
       Rule("ci_bypass", "NO. Do not bypass pre-commit hooks. Fix the issue.",
            {Pat(<<Has("--no-verify", TRUE)>>)}),
       Rule("ci_bypass", "Do not skip GPG signing.",
            {Pat(<<Has("--no-gpg-sign", TRUE)>>)}),
       Rule("ci_bypass", "Do not skip hooks.",
            {Pat(<<Has("--skip-hooks", TRUE)>>)}),
       Rule("ci_bypass", "Do not disable Husky.",
            {Pat(<<Has("husky=0", TRUE)>>),
             Pat(<<Ends("husky", TRUE), Starts("=0", TRUE)>>),
             Pat(<<Ends("husky=", TRUE), Starts("0", TRUE)>>),
             Pat(<<Ends("husky", TRUE), Eq("=", TRUE), Starts("0", TRUE)>>)}),
       Rule("ci_bypass", "Do not bypass pre-commit.",
            {Pat(<<Has("PRE_COMMIT_ALLOW_NO_CONFIG", TRUE)>>)}),
       Rule("ci_bypass", "Do not modify pre-commit hooks. Fix the code, not the safety net.",
            {PatLater(<<EditorEnd>>, HasPreCommit(TRUE)),
             PatLater(<<Ends("cat", TRUE), Starts(">", TRUE)>>, HasPreCommit(TRUE)),
             PatLater(<<Ends("echo", TRUE), Has(">", TRUE)>>, HasPreCommit(TRUE)),
             PatLater(<<Ends("echo", TRUE), AnyToken, Has(">", TRUE)>>, HasPreCommit(TRUE))}),
       Rule("ci_bypass", "Do not modify pre-commit hook permissions. Fix the code, not the safety net.",
            {PatLater(<<Ends("chmod", TRUE)>>, HasPreCommit(TRUE))}) >>,
    destructive_git |-> <<
       Rule("destructive_git", "NO. git reset --hard destroys work. Ask the user first.",
            {Pat(<<GitEnd, Eq("reset", TRUE), Starts("--hard", TRUE)>>)}),
       Rule("destructive_git", "NO. git clean -f deletes untracked files. Ask the user.",
            {Pat(<<GitEnd, Eq("clean", TRUE), Starts("-f", TRUE)>>)}),
       Rule("destructive_git", "NO. git checkout . discards changes. Ask the user.",
            {Pat(<<GitEnd, CO, Starts(".", TRUE)>>)}),
       Rule("destructive_git", "NO. git restore . discards changes. Ask the user.",
            {Pat(<<GitEnd, Eq("restore", TRUE), Starts(".", TRUE)>>)}),
       Rule("destructive_git", "NO. Force push is destructive. Ask the user.",
            {Pat(<<GitEnd, Eq("push", TRUE), Starts("--force", TRUE)>>)}),
       Rule("destructive_git", "NO. Force push is destructive. Ask the user.",
            {Pat(<<GitEnd, Eq("push", TRUE), StartsB("-f", TRUE)>>)}),
       Rule("destructive_git", "NO. git branch -D force-deletes branches. Use -d instead.",
            {Pat(<<GitEnd, Eq("branch", TRUE), Starts("-D", TRUE)>>)}) >>,
    branch_switching |-> <<
       Rule("branch_switching", "ABSOLUTELY NOT. Switching branches corrupts worktrees. Stay on your assigned branch. Use 'git switch -C <name>' to create a new branch.",
            {Pat(<<GitEnd, SW, NotCreateFlag>>)}),
       Rule("branch_switching", "ABSOLUTELY NOT. Switching branches corrupts worktrees. Stay on your assigned branch. Use 'git switch -C <name>' to create a new branch.",
            {Pat(<<GitEnd, CO, RefStart>>)}),
       Rule("branch_switching", "ABSOLUTELY NOT. Checking out all files from another ref destroys the worktree. Stay on your assigned branch.",
            {Pat(<<GitEnd, CO, AnyToken, Eq("--", TRUE), Starts(".", TRUE)>>)}),
       Rule("branch_switching", "Do not push directly to main/master. Use a pull request.",
            {Pat(<<GitEnd, Eq("push", TRUE), AnyToken,
                   StartsB("main", TRUE) \cup StartsB("master", TRUE)>>)}),
       Rule("branch_switching", "Do not push directly to main/master. Use a pull request.",
            {Pat(<<GitEnd, Eq("push", TRUE), AnyToken, ToMainRefspec>>)}) >>,
    interactive_git |-> <<
       Rule("interactive_git", "Interactive rebase won't work in this environment.",
            {Pat(<<GitEnd, Eq("rebase", TRUE), Starts("-i", TRUE)>>)}),
       Rule("interactive_git", "Interactive add won't work in this environment.",
            {Pat(<<GitEnd, Eq("add", TRUE), Starts("-i", TRUE)>>)}),
       Rule("interactive_git", "Patch add won't work in this environment.",
            {Pat(<<GitEnd, Eq("add", TRUE), Starts("-p", TRUE)>>)}) >>,
    dangerous_files |-> <<
       Rule("dangerous_files", "NO. Absolutely not.",
            {Pat(<<Ends("rm", TRUE), Eq("-rf", TRUE), Starts("/", TRUE)>>)}),
       Rule("dangerous_files", "NO. Do not delete home directory.",
            {Pat(<<Ends("rm", TRUE), Eq("-rf", TRUE), Starts("~", TRUE)>>)}),
       Rule("dangerous_files", "NO. Do not delete everything.",
            {Pat(<<Ends("rm", TRUE), Eq("-rf", TRUE), Starts("*", TRUE)>>)}),
       Rule("dangerous_files", "NO. Do not write to block devices.",
            {Pat(<<Has(">/dev/sd", TRUE)>>),
             Pat(<<Ends(">", TRUE), Starts("/dev/sd", TRUE)>>)}) >>,
    git_history |-> <<
       Rule("git_history", "Don't dig through git history for bugs. Read the actual code.",
            {PatNever(<<GitEnd, StartsB("log", TRUE)>>, HasB("--oneline", TRUE))}),
       Rule("git_history", "Don't use git blame. Claude wrote those commits. Read the actual code.",
            {Pat(<<GitEnd, StartsB("blame", TRUE)>>)}) >>,
    credential_access |-> <<
       Rule("credential_access", "Do not cat .env files. They contain secrets.",
            {PatLater(<<Ends("cat", TRUE)>>, HasB(".env", TRUE))}),
       Rule("credential_access", "Do not cat credential files.",
            {PatLater(<<Ends("cat", TRUE)>>, Has("credentials", TRUE))}),
       Rule("credential_access", "Do not cat private keys.",
            {PatLater(<<Ends("cat", TRUE)>>, HasB(".pem", TRUE))}),
       Rule("credential_access", "Do not cat SSH keys.",
            {PatLater(<<Ends("cat", TRUE)>>, HasB("_rsa", TRUE))}) >>]

\* the keys of SAFETY_CATEGORIES, in the order of the dict literal
CategoryOrder ==
   <<"ci_bypass", "destructive_git", "branch_switching", "interactive_git",
     "dangerous_files", "git_history", "credential_access">>

Categories == {CategoryOrder[k] : k \in 1..Len(CategoryOrder)}

ALLOWED_PATTERNS ==
   << {PatNever(<<GitEnd, StartsB("diff", TRUE)>>, Has("head~", TRUE))},
      {Pat(<<GitEnd, StartsB("status", TRUE)>>)},
      {Pat(<<GitEnd, Eq("log", TRUE), StartsB("--oneline", TRUE)>>)},
      {Pat(<<GitEnd, CO, AnyToken, Eq("--", TRUE), NotBareDot>>)} >>

\* an enabled-categories argument: None, or a dict kept as its items() in
\* insertion order
NoCategories == [none |-> TRUE, items |-> <<>>]

CatMap(items) == [none |-> FALSE, items |-> items]

\* a collection that does not look at the flag of a category
RECURSIVE get_patterns_ignoring_flag(_, _)
get_patterns_ignoring_flag(items, k) ==
   IF k > Len(items) THEN <<>>
   ELSE (IF items[k][1] \in Categories THEN SAFETY_CATEGORIES[items[k][1]] ELSE <<>>)
        \o get_patterns_ignoring_flag(items, k + 1)

RECURSIVE get_enabled_patterns_from(_, _)
get_enabled_patterns_from(items, k) ==
   IF k > Len(items) THEN <<>>
   ELSE (IF items[k][2] /\ items[k][1] \in Categories
            THEN SAFETY_CATEGORIES[items[k][1]]
            ELSE <<>>)
        \o get_enabled_patterns_from(items, k + 1)

get_enabled_patterns(enabled_categories) ==
   get_enabled_patterns_from(enabled_categories.items, 1)

MatchesAllowed(command) ==
   \E k \in 1..Len(ALLOWED_PATTERNS) : Search(ALLOWED_PATTERNS[k], command)

\* a scan that stops one pattern short of the end of the list
FirstMatchButLast(patterns, command) ==
   IF \E k \in 1..(Len(patterns) - 1) : Search(patterns[k].alts, command)
      THEN CHOOSE k \in 1..(Len(patterns) - 1) :
              /\ Search(patterns[k].alts, command)
              /\ \A n \in 1..(k - 1) : ~Search(patterns[n].alts, command)
      ELSE 0

\* index of the first pattern of the list that the command matches, 0 if none
FirstMatch(patterns, command) ==
   IF \E k \in 1..Len(patterns) : Search(patterns[k].alts, command)
      THEN CHOOSE k \in 1..Len(patterns) :
              /\ Search(patterns[k].alts, command)
              /\ \A n \in 1..(k - 1) : ~Search(patterns[n].alts, command)
      ELSE 0

AllEnabled == CatMap([k \in 1..Len(CategoryOrder) |-> <<CategoryOrder[k], TRUE>>])

\* the verdict for the k-th pattern of the list, no pattern when k = 0
verdict_of(patterns, k) ==
   IF k > 0
      THEN [is_forbidden |-> TRUE, reason |-> patterns[k].reason]
      ELSE [is_forbidden |-> FALSE, reason |-> ""]

\* the loop over the patterns of the enabled categories
first_forbidden(patterns, command) == verdict_of(patterns, FirstMatch(patterns, command))

\* a check_command that scans the enabled rules before the allow-list
check_command_rules_first(command, enabled_categories) ==
   LET verdict == first_forbidden(
                     get_enabled_patterns(IF enabled_categories.none THEN AllEnabled
                                          ELSE enabled_categories),
                     command)
   IN  IF verdict.is_forbidden THEN verdict
       ELSE [is_forbidden |-> FALSE, reason |-> ""]

check_command(command, enabled_categories) ==
   IF MatchesAllowed(command)
      THEN [is_forbidden |-> FALSE, reason |-> ""]
      ELSE first_forbidden(
              get_enabled_patterns(IF enabled_categories.none THEN AllEnabled
                                   ELSE enabled_categories),
              command)

(***************************************************************************)
(* The commands the model submits: a prefix followed by free arguments     *)
(***************************************************************************)
Prefixes ==
   { <<"git", "checkout">>, <<"git", "co">>, <<"git", "switch">>, <<"git", "sw">>,
     <<"git", "checkout", "main">>, <<"git", "co", "main">>,
     <<"git", "reset", "--hard">>, <<"GIT", "RESET", "--HARD">>,
     <<"git", "log">>, <<"git", "log", "--oneline">>, <<"git", "status">>, <<"git", "diff">>,
     <<"git", "diff", "HEAD~1">>, <<"git", "commit", "--no-verify">>,
     <<"HUSKY=0", "git", "commit">>, <<"git", "add", "-p">>, <<"git", "blame">>,
     <<"rm", "-rf">>, <<"rm", "-rf", "/">>, <<"cat", ".env">>,
     <<"chmod", "+x", "pre-commit">>, <<"sed", "-i", "pre-commit">>,
     <<"ls">>, <<"base64", "-d">>, <<"curl", "u", "|", "bash">>,
     <<"cat", "a/.git/hooks/x">> }

Args == {".", "--", "a.py", "-c", "node_modules"}

ArgSeqs == UNION {[1..n -> Args] : n \in 0..MaxArgs}

Commands == {p \o a : p \in Prefixes, a \in ArgSeqs}

\* the commands of the tool calls: a prefix alone or with one argument
ToolCommands == Prefixes \cup {p \o <<a>> : p \in Prefixes, a \in Args}

(***************************************************************************)
(* The text as re sees it: the tokens joined by single blanks              *)
(***************************************************************************)
RECURSIVE FlatFrom(_, _, _)
FlatFrom(text, k, ci) ==
   IF k > Len(text) THEN <<>>
   ELSE (IF k > 1 THEN <<" ">> ELSE <<>>) \o Spell(text[k], ci) \o FlatFrom(text, k + 1, ci)

Flat(text, ci) == FlatFrom(text, 1, ci)

\* s[a..b] is whitespace only (empty when a > b)
Blank(s, a, b) == \A n \in a..b : s[n] = " "

\* no character of s[a..b] is c
Without(s, c, a, b) == \A n \in a..b : s[n] # c

OccursLit(s, w, k, ci) == OccursAt(s, Spell(w, ci), k)

(***************************************************************************)
(* safety/command_classifier.py                                            *)
(***************************************************************************)
\* exec\s*\([^)]*decode
ExecDecode(s) ==
   \E a \in 1..Len(s) : \E b \in (a + 4)..Len(s) : \E c \in (b + 1)..Len(s) :
      /\ OccursLit(s, "exec", a, TRUE)
      /\ Blank(s, a + 4, b - 1)
      /\ s[b] = "("
      /\ Without(s, ")", b + 1, c - 1)
      /\ OccursLit(s, "decode", c, TRUE)

\* <fetcher>\s+[^|]+\|\s*(<shells>)
FetchPipedTo(s, fetcher, shells) ==
   LET n == Len(Chars(fetcher))
   IN  \E a \in 1..Len(s) : \E c \in (a + n + 2)..Len(s) : \E d \in (c + 1)..Len(s) :
          /\ OccursLit(s, fetcher, a, TRUE)
          /\ s[a + n] = " "
          /\ Without(s, "|", a + n + 1, c - 1)
          /\ s[c] = "|"
          /\ Blank(s, c + 1, d - 1)
          /\ \E sh \in shells : OccursLit(s, sh, d, TRUE)

\* curl.*-o\s*-.*\|\s*(bash|sh)
CurlStdoutPiped(s) ==
   \E a \in 1..Len(s) : \E b \in (a + 4)..Len(s) : \E e \in (b + 2)..Len(s) :
      \E c \in (e + 1)..Len(s) : \E d \in (c + 1)..Len(s) :
         /\ OccursLit(s, "curl", a, TRUE)
         /\ OccursLit(s, "-o", b, TRUE)
         /\ Blank(s, b + 2, e - 1)
         /\ s[e] = "-"
         /\ s[c] = "|"
         /\ Blank(s, c + 1, d - 1)
         /\ \E sh \in {"bash", "sh"} : OccursLit(s, sh, d, TRUE)

\* the patterns of NEEDS_LLM_PATTERNS whose pieces are whole tokens
NEEDS_LLM_TOKEN_PATTERNS ==
   << {Pat(<<Ends("rm", TRUE), Eq("-r", TRUE) \cup Eq("-rf", TRUE), AnyToken>>)},
      {Pat(<<Ends("rm", TRUE), Eq("-f", TRUE) \cup Eq("-fr", TRUE), AnyToken>>)},
      {Pat(<<Ends("base64", TRUE), Starts("-d", TRUE) \cup Starts("--decode", TRUE)>>)},
      {Pat(<<Ends("xxd", TRUE), Starts("-r", TRUE)>>)},
      {Pat(<<Ends("eval", TRUE), Starts("$(", TRUE)>>)} >>

\* the tokens one of the other patterns can start in
ExecTokens == Has("exec", TRUE)

CurlTokens == Has("curl", TRUE)

WgetTokens == Has("wget", TRUE)

MatchesNeedsLlm(command) ==
   \/ \E k \in 1..Len(NEEDS_LLM_TOKEN_PATTERNS) :
         Search(NEEDS_LLM_TOKEN_PATTERNS[k], command)
   \/ /\ \E k \in 1..Len(command) : command[k] \in ExecTokens
      /\ ExecDecode(Flat(command, TRUE))
   \/ /\ \E k \in 1..Len(command) : command[k] \in CurlTokens
      /\ \/ FetchPipedTo(Flat(command, TRUE), "curl", {"bash", "sh", "zsh"})
         \/ CurlStdoutPiped(Flat(command, TRUE))
   \/ /\ \E k \in 1..Len(command) : command[k] \in WgetTokens
      /\ FetchPipedTo(Flat(command, TRUE), "wget", {"bash", "sh", "zsh"})

\* (node_modules|dist|build|\.cache|__pycache__|\.pytest_cache|coverage|\.next|\.nuxt|target|vendor)
CleanupNames ==
   {"node_modules", "dist", "build", ".cache", "__pycache__", ".pytest_cache",
    "coverage", ".next", ".nuxt", "target", "vendor"}

\* <name>/?
CleanupTarget ==
   {t \in Vocab : \E n \in CleanupNames : \E suffix \in {<<>>, <<"/">>} :
       Spell(t, TRUE) = Spell(n, TRUE) \o suffix}

\* \./?<name>/?
CleanupTargetHere ==
   {t \in Vocab : \E n \in CleanupNames :
       \E lead \in {<<".">>, <<".", "/">>} : \E suffix \in {<<>>, <<"/">>} :
          Spell(t, TRUE) = lead \o Spell(n, TRUE) \o suffix}

ALWAYS_ALLOWED_PATTERNS ==
   << {PatEnd(<<Ends("rm", TRUE), Eq("-r", TRUE) \cup Eq("-rf", TRUE), CleanupTarget>>)},
      {PatEnd(<<Ends("rm", TRUE), Eq("-r", TRUE) \cup Eq("-rf", TRUE), CleanupTargetHere>>)} >>

MatchesAlwaysAllowed(command) ==
   \E k \in 1..Len(ALWAYS_ALLOWED_PATTERNS) : Search(ALWAYS_ALLOWED_PATTERNS[k], command)

needs_llm_classification(command) ==
   IF MatchesAlwaysAllowed(command) THEN FALSE
   ELSE MatchesNeedsLlm(command)

(***************************************************************************)
(* hooks/base.py: HookResult                                               *)
(***************************************************************************)
HookResult(decision, reason, message, additional_context) ==
   [decision |-> decision, reason |-> reason, message |-> message,
    additional_context |-> additional_context]

Allow(reason) == HookResult("allow", reason, "", "")

\* a block that also carries its message as injected context
Block_with_context(message, reason) ==
   HookResult("block", IF reason # "" THEN reason ELSE message, message, message)

Block(message, reason) ==
   HookResult("block", IF reason # "" THEN reason ELSE message, message, "")

Kill(reason) == HookResult("kill", reason, "", "")

WithContext(context) == HookResult("allow", "", "", context)

\* what a call of a hook comes to: a result, or an exception leaving it
Returned(result, llm_calls, consulted) ==
   [status |-> "returned", result |-> result, exc |-> "",
    llm_calls |-> llm_calls, killed |-> FALSE, consulted |-> consulted]

Raised(exc, llm_calls, consulted) ==
   [status |-> "raised", result |-> HookResult("", "", "", ""), exc |-> exc,
    llm_calls |-> llm_calls, killed |-> FALSE, consulted |-> consulted]

(***************************************************************************)
(* llm/base.py: the provider is a black box; one call either raises,       *)
(* returns content that is not a JSON object, or returns a JSON object     *)
(***************************************************************************)
\* llm_provider: None, a provider without api key, a provider with one
Providers == {"none", "unconfigured", "configured"}

\* a provider that claims to be configured without a key
is_configured_always(llm_provider) == TRUE

is_configured(llm_provider) == llm_provider = "configured"

\* a test that only looks for a missing provider
NoLlmOnlyNone(llm_provider) == llm_provider = "none"

NoLlm(llm_provider) == llm_provider = "none" \/ ~is_configured(llm_provider)

LlmRaises == [kind |-> "raise", content |-> [error |-> "raised"]]

LlmNotObject == [kind |-> "notdict", content |-> [error |-> "not an object"]]

LlmContent(content) == [kind |-> "dict", content |-> content]

\* dict.get(key, default)
Get(d, key, default) == IF key \in DOMAIN d THEN d[key] ELSE default

\* the replies a classification call may get
ClassifierReplies ==
   {LlmRaises, LlmNotObject,
    LlmContent([error |-> "Request timed out"]),
    LlmContent([reason |-> "no verdict", message |-> "n/a"])}
   \cup {LlmContent([decision |-> d, category |-> "destructive",
                     reason |-> "judged", message |-> "Do not run this."]) :
            d \in {"allow", "block", "maybe"}}

(***************************************************************************)
(* safety/command_classifier.py: classify_command                          *)
(***************************************************************************)
ClassificationResult(is_blocked, category, reason, message, llm_calls) ==
   [is_blocked |-> is_blocked, category |-> category, reason |-> reason,
    message |-> message, llm_calls |-> llm_calls]

classify_command(command, llm_provider, fallback, reply) ==
   IF NoLlm(llm_provider)
      THEN IF fallback = "allow"
              THEN ClassificationResult(FALSE, "none",
                      "No LLM configured, fallback to allow", "", 0)
              ELSE ClassificationResult(TRUE, "none",
                      "No LLM configured, fallback to block",
                      "Command requires LLM classification but none configured.", 0)
      ELSE IF reply.kind = "dict"
              THEN ClassificationResult(
                      Get(reply.content, "decision", "block") = "block",
                      Get(reply.content, "category", "other"),
                      Get(reply.content, "reason", "Unknown"),
                      Get(reply.content, "message", "Command blocked."), 1)
              ELSE ClassificationResult(TRUE, "other", "LLM classification failed",
                      "Classification failed. Command blocked for safety.", 1)

(***************************************************************************)
(* hooks/pre_tool.py                                                       *)
(***************************************************************************)
PROTECTED_FILE_PATTERNS ==
   << [alts |-> {PatStart(<<Starts(".git/hooks/", FALSE)>>),
                 Pat(<<Has("/.git/hooks/", FALSE)>>)},
       reason |-> "Do not modify git hooks. Fix the code, not the safety net."],
      [alts |-> {Pat(<<Has("pre-commit", FALSE)>>)},
       reason |-> "Do not touch pre-commit. Fix the code, not the safety net."],
      [alts |-> {PatStart(<<Starts(".github/workflows/", FALSE)>>),
                 Pat(<<Has("/.github/workflows/", FALSE)>>)},
       reason |-> "Do not modify CI workflows. Fix the code, not the pipeline."] >>

\* the values of a tool input: a string, a list, or anything else (a number,
\* a nested object whose own strings are in inner)
Str(text) == [kind |-> "str", text |-> text, items |-> <<>>, inner |-> <<>>]

List(items) == [kind |-> "list", text |-> <<>>, items |-> items, inner |-> <<>>]

Nested(text) == [kind |-> "dict", text |-> <<>>, items |-> <<>>, inner |-> text]

\* the strings of a list value, in order
RECURSIVE StringsOf(_, _)
StringsOf(items, k) ==
   IF k > Len(items) THEN <<>>
   ELSE (IF items[k].kind = "str" THEN <<items[k].text>> ELSE <<>>)
        \o StringsOf(items, k + 1)

\* a scan that looks at the string fields only
RECURSIVE values_to_check_strings_only(_, _)
values_to_check_strings_only(tool_input, k) ==
   IF k > Len(tool_input) THEN <<>>
   ELSE (IF tool_input[k][2].kind = "str" THEN <<tool_input[k][2].text>> ELSE <<>>)
        \o values_to_check_strings_only(tool_input, k + 1)

\* values_to_check: tool_input is the dict's items() in insertion order
RECURSIVE values_to_check(_, _)
values_to_check(tool_input, k) ==
   IF k > Len(tool_input) THEN <<>>
   ELSE (CASE tool_input[k][2].kind = "str" -> <<tool_input[k][2].text>>
           [] tool_input[k][2].kind = "list" -> StringsOf(tool_input[k][2].items, 1)
           [] OTHER -> <<>>)
        \o values_to_check(tool_input, k + 1)

\* index of the first value that matches a pattern of the list, 0 if none
FirstHit(patterns, values) ==
   IF \E k \in 1..Len(values) : FirstMatch(patterns, values[k]) # 0
      THEN CHOOSE k \in 1..Len(values) :
              /\ FirstMatch(patterns, values[k]) # 0
              /\ \A j \in 1..(k - 1) : FirstMatch(patterns, values[j]) = 0
      ELSE 0

\* the reason of the first protected pattern the first offending value matches,
\* "" when no value matches any
protected_reason(patterns, values) ==
   LET k == FirstHit(patterns, values)
   IN  IF k = 0 THEN "" ELSE patterns[FirstMatch(patterns, values[k])].reason

ProtectedHit(value) == FirstMatch(PROTECTED_FILE_PATTERNS, value) # 0

check_protected_paths(tool_input) ==
   protected_reason(PROTECTED_FILE_PATTERNS, values_to_check(tool_input, 1))

\* tool_input.get(name, default)
HasField(tool_input, name) == \E k \in 1..Len(tool_input) : tool_input[k][1] = name

Field(tool_input, name) ==
   tool_input[CHOOSE k \in 1..Len(tool_input) : tool_input[k][1] = name][2]

\* steps 2 and 3 of PreToolHook.handle: the verdict of the classifier
classified(c) ==
   IF c.is_blocked
      THEN Returned(Block(c.message, ""), c.llm_calls,
                    {"protected", "catalog", "classifier"})
      ELSE Returned(Allow(c.reason), c.llm_calls,
                    {"protected", "catalog", "classifier"})

\* a step 1 that sends every command the catalog did not block to the classifier
pattern_checked_always_classifying(verdict, command, config, llm_provider, reply) ==
   IF verdict.is_forbidden
      THEN Returned(Block(verdict.reason, ""), 0, {"protected", "catalog"})
      ELSE classified(classify_command(command, llm_provider, config.llm_fallback, reply))

\* step 1 of PreToolHook.handle: the verdict of check_command on the command
pattern_checked(verdict, command, config, llm_provider, reply) ==
   IF verdict.is_forbidden
      THEN Returned(Block(verdict.reason, ""), 0, {"protected", "catalog"})
   ELSE IF needs_llm_classification(command)
      THEN classified(classify_command(command, llm_provider, config.llm_fallback, reply))
   ELSE Returned(Allow("Command allowed"), 0, {"protected", "catalog"})

\* PreToolHook.handle after _check_protected_paths returned guard
path_checked(guard, hook_input, config, llm_provider, reply) ==
   LET tool_input == hook_input.tool_input
       command == IF HasField(tool_input, "command")
                     THEN Field(tool_input, "command") ELSE Str(<<>>)
   IN  IF guard # ""
          THEN Returned(Block(guard, ""), 0, {"protected"})
       ELSE IF hook_input.tool_name # "Bash"
          THEN Returned(Allow("Not a Bash command"), 0, {"protected"})
       ELSE IF command.kind # "str"
          THEN Raised("TypeError", 0, {"protected", "catalog"})
       ELSE pattern_checked(check_command(command.text, config.categories),
                            command.text, config, llm_provider, reply)

\* PreToolHook.handle; config carries categories and llm_fallback
PreToolHook_handle(hook_input, config, llm_provider, reply) ==
   path_checked(check_protected_paths(hook_input.tool_input),
                hook_input, config, llm_provider, reply)

(***************************************************************************)
(* hooks/stop.py: the permission-seeking prechecks                         *)
(***************************************************************************)
\* w, under re.IGNORECASE
Word(w) == Eq(w, TRUE)

\* (w1|w2|...) at the start of the pattern
EndsAny(ws) == UNION {Ends(w, TRUE) : w \in ws}

\* (w1|w2|...) at the end of the pattern
StartsAny(ws) == UNION {Starts(w, TRUE) : w \in ws}

\* (execute|implement|build|start|begin)
StartWork == StartsAny({"execute", "implement", "build", "start", "begin"})

\* (also|help|assist).*if inside one token
AlsoThenIf ==
   {t \in Vocab : \E w \in {"also", "help", "assist"} :
       /\ OccursAt(Spell(t, TRUE), Spell(w, TRUE), 1)
       /\ Len(Chars(t)) >= Len(Chars(w)) + 2
       /\ OccursAt(Spell(t, TRUE), Spell("if", TRUE), Len(Chars(t)) - 1)}

\* steps.*\? inside one token
StepsThenQuestion ==
   {t \in Vocab : /\ OccursAt(Spell(t, TRUE), Spell("steps", TRUE), 1)
                  /\ Len(Chars(t)) >= 6
                  /\ Chars(t)[Len(Chars(t))] = "?"}

\* (complete|ready|solid|done)\.? up to the end of the token
DoneOrDot ==
   {t \in Vocab : \E w \in {"complete", "ready", "solid", "done"} :
       \E suffix \in {<<>>, <<".">>} : Spell(t, TRUE) = Spell(w, TRUE) \o suffix}

\* \d+
Digits ==
   {t \in Vocab : \A k \in 1..Len(Chars(t)) :
       Chars(t)[k] \in {"0", "1", "2", "3", "4", "5", "6", "7", "8", "9"}}

Signature(pattern, alts) == [pattern |-> pattern, alts |-> alts]

PERMISSION_SEEKING_PATTERNS ==
   << Signature("ready\\s+for\\s+(your\\s+)?feedback",
         {Pat(<<Ends("ready", TRUE), Word("for"), Starts("feedback", TRUE)>>),
          Pat(<<Ends("ready", TRUE), Word("for"), Word("your"), Starts("feedback", TRUE)>>)}),
      Signature("should\\s+I\\s+proceed",
         {Pat(<<Ends("should", TRUE), Word("I"), Starts("proceed", TRUE)>>)}),
      Signature("would\\s+you\\s+like\\s+(me\\s+to|to)",
         {Pat(<<Ends("would", TRUE), Word("you"), Word("like"), Word("me"), Starts("to", TRUE)>>),
          Pat(<<Ends("would", TRUE), Word("you"), Word("like"), Starts("to", TRUE)>>)}),
      Signature("if\\s+you\\s+(want|would\\s+like)",
         {Pat(<<Ends("if", TRUE), Word("you"), Starts("want", TRUE)>>),
          Pat(<<Ends("if", TRUE), Word("you"), Word("would"), Starts("like", TRUE)>>)}),
      Signature("let\\s+me\\s+know\\s+(if|when|what)",
         {Pat(<<Ends("let", TRUE), Word("me"), Word("know"),
                StartsAny({"if", "when", "what"})>>)}),
      Signature("awaiting\\s+(your|further)",
         {Pat(<<Ends("awaiting", TRUE), StartsAny({"your", "further"})>>)}),
      Signature("waiting\\s+for\\s+(your|further)",
         {Pat(<<Ends("waiting", TRUE), Word("for"), StartsAny({"your", "further"})>>)}),
      Signature("please\\s+(confirm|let\\s+me\\s+know|advise)",
         {Pat(<<Ends("please", TRUE), StartsAny({"confirm", "advise"})>>),
          Pat(<<Ends("please", TRUE), Word("let"), Word("me"), Starts("know", TRUE)>>)}),
      Signature("do\\s+you\\s+want\\s+me\\s+to",
         {Pat(<<Ends("do", TRUE), Word("you"), Word("want"), Word("me"), Starts("to", TRUE)>>)}),
      Signature("shall\\s+I\\s+(proceed|continue|go\\s+ahead)",
         {Pat(<<Ends("shall", TRUE), Word("I"), StartsAny({"proceed", "continue"})>>),
          Pat(<<Ends("shall", TRUE), Word("I"), Word("go"), Starts("ahead", TRUE)>>)}),
      Signature("I\\s+can\\s+(also|help|assist).*if\\s+you",
         {PatThen(<<Ends("I", TRUE), Word("can"), StartsAny({"also", "help", "assist"})>>,
                  <<Ends("if", TRUE), Starts("you", TRUE)>>, FALSE),
          Pat(<<Ends("I", TRUE), Word("can"), AlsoThenIf, Starts("you", TRUE)>>)}),
      Signature("what\\s+would\\s+you\\s+like\\s+me\\s+to",
         {Pat(<<Ends("what", TRUE), Word("would"), Word("you"), Word("like"), Word("me"),
                Starts("to", TRUE)>>)}),
      Signature("I('m|\\s+am)\\s+ready\\s+(to|for)",
         {Pat(<<Ends("I'm", TRUE), Word("ready"), StartsAny({"to", "for"})>>),
          Pat(<<Ends("I", TRUE), Word("am"), Word("ready"), StartsAny({"to", "for"})>>)}),
      Signature("next\\s+steps.*\\?\\s*$",
         {PatThen(<<Ends("next", TRUE), Starts("steps", TRUE)>>, <<Ends("?", TRUE)>>, TRUE),
          PatEnd(<<Ends("next", TRUE), StepsThenQuestion>>)}),
      Signature("time\\s+to\\s+(execute|implement|build|start|begin)",
         {Pat(<<Ends("time", TRUE), Word("to"), StartWork>>)}),
      Signature("(foundation|groundwork|setup)\\s+is\\s+(solid|complete|ready|done)",
         {Pat(<<EndsAny({"foundation", "groundwork", "setup"}), Word("is"),
                StartsAny({"solid", "complete", "ready", "done"})>>)}),
      Signature("ready\\s+to\\s+(execute|implement|build|start|begin)",
         {Pat(<<Ends("ready", TRUE), Word("to"), StartWork>>)}),
      Signature("now\\s+(you\\s+can|we\\s+can)\\s+(execute|implement|build)",
         {Pat(<<Ends("now", TRUE), Word("you") \cup Word("we"), Word("can"),
                StartsAny({"execute", "implement", "build"})>>)}),
      Signature("(plan|design|architecture)\\s+is\\s+(complete|ready|solid|done)\\.?\\s*$",
         {PatEnd(<<EndsAny({"plan", "design", "architecture"}), Word("is"), DoneOrDot>>)}),
      Signature("(I've|I\\s+have)\\s+made\\s+(good\\s+)?progress",
         {Pat(<<Ends("I've", TRUE), Word("made"), Starts("progress", TRUE)>>),
          Pat(<<Ends("I've", TRUE), Word("made"), Word("good"), Starts("progress", TRUE)>>),
          Pat(<<Ends("I", TRUE), Word("have"), Word("made"), Starts("progress", TRUE)>>),
          Pat(<<Ends("I", TRUE), Word("have"), Word("made"), Word("good"),
                Starts("progress", TRUE)>>)}),
      Signature("let\\s+me\\s+save\\s+this\\s+work",
         {Pat(<<Ends("let", TRUE), Word("me"), Word("save"), Word("this"),
                Starts("work", TRUE)>>)}),
      Signature("summary\\s+(coming|follows)",
         {Pat(<<Ends("summary", TRUE), StartsAny({"coming", "follows"})>>)}),
      Signature("due\\s+to\\s+(the\\s+)?complexity",
         {Pat(<<Ends("due", TRUE), Word("to"), Starts("complexity", TRUE)>>),
          Pat(<<Ends("due", TRUE), Word("to"), Word("the"), Starts("complexity", TRUE)>>)}),
      Signature("session\\s+\\d+\\s+(summary|recap)",
         {Pat(<<Ends("session", TRUE), Digits, StartsAny({"summary", "recap"})>>)}) >>

\* a precheck that finds no signature in any text
no_permission_reason(patterns, text) == ""

\* _check_permission_seeking: "" stands for None
permission_reason(patterns, text) ==
   LET n == FirstMatch(patterns, text)
   IN  IF n = 0 THEN ""
       ELSE "Permission-seeking detected: '" \o patterns[n].pattern \o "'"

check_permission_seeking(text) ==
   IF text = <<>> THEN "" ELSE permission_reason(PERMISSION_SEEKING_PATTERNS, text)

(***************************************************************************)
(* hooks/stop.py: the transcript                                           *)
(***************************************************************************)
\* a line of the transcript file: blank, not JSON ("garbage"), a JSON value
\* that is no object ("scalar"), or a message in one of the wire shapes:
\*   tag "role":  {"role": role, "content": content}
\*   tag "type":  {"type": role, "message": {"role": role, "content": content}}
\*   tag "human": {"type": "human", "message": content}
Line(kind, tag, role, content) ==
   [kind |-> kind, tag |-> tag, role |-> role, content |-> content]

\* the content of a message: a string or a list of blocks
MsgStr(text) == [kind |-> "str", text |-> text, blocks |-> <<>>]

MsgList(blocks) == [kind |-> "list", text |-> <<>>, blocks |-> blocks]

TextBlock(text) == [type |-> "text", text |-> text]

ToolUseBlock == [type |-> "tool_use", text |-> <<>>]

NoContent == MsgStr(<<>>)

BlankLine == Line("blank", "", "", NoContent)

GarbageLine == Line("garbage", "", "", NoContent)

ScalarLine == Line("scalar", "", "", NoContent)

Message(tag, role, content) == Line("msg", tag, role, content)

\* "\n".join(parts)
RECURSIVE JoinLines(_)
JoinLines(parts) ==
   IF parts = <<>> THEN <<>>
   ELSE IF Len(parts) = 1 THEN parts[1]
   ELSE parts[1] \o <<"\n">> \o JoinLines(Tail(parts))

\* the text parts of the blocks of a list content
RECURSIVE text_parts(_, _)
text_parts(blocks, k) ==
   IF k > Len(blocks) THEN <<>>
   ELSE (IF blocks[k].type = "text" THEN <<blocks[k].text>> ELSE <<>>)
        \o text_parts(blocks, k + 1)

\* the text of a content, a string or the joined text blocks
ContentText(content) ==
   IF content.kind = "str" THEN content.text
   ELSE JoinLines(text_parts(content.blocks, 1))

\* what open(transcript_path) does
TranscriptFile(path, lines) == [path |-> path, lines |-> lines]

\* _parse_transcript: the JSON values of the lines that parse; only a missing
\* file is caught
ParseRaises(transcript) == transcript.path \in {"denied", "directory"}

ParseError(transcript) ==
   IF transcript.path = "denied" THEN "PermissionError" ELSE "IsADirectoryError"

IsJson(line) == line.kind \in {"scalar", "msg"}

parse_transcript(transcript) ==
   IF transcript.path \in {"", "missing"} THEN <<>>
   ELSE SelectSeq(transcript.lines, IsJson)

\* msg.get(...) on a JSON value that is no object raises
HasScalar(messages) == \E k \in 1..Len(messages) : messages[k].kind = "scalar"

IsUser(msg) ==
   \/ msg.tag \in {"type", "role"} /\ msg.role = "user"
   \/ msg.tag = "human"

\* _extract_all_user_messages
RECURSIVE extract_all_user_messages(_, _)
extract_all_user_messages(messages, k) ==
   IF k > Len(messages) THEN <<>>
   ELSE (IF IsUser(messages[k]) THEN <<ContentText(messages[k].content)>> ELSE <<>>)
        \o extract_all_user_messages(messages, k + 1)

IsAssistant(msg) == msg.tag \in {"role", "type"} /\ msg.role = "assistant"

HasAssistant(messages) == \E k \in 1..Len(messages) : IsAssistant(messages[k])

\* _extract_last_assistant; <<>> stands for both None and ""
extract_last_assistant(messages) ==
   IF HasAssistant(messages)
      THEN LET k == CHOOSE k \in 1..Len(messages) :
                       /\ IsAssistant(messages[k])
                       /\ \A j \in (k + 1)..Len(messages) : ~IsAssistant(messages[j])
           IN  ContentText(messages[k].content)
      ELSE <<>>

(***************************************************************************)
(* hooks/stop.py: the documents the user referred to                       *)
(***************************************************************************)
\* [\w./-]
MentionChars == WordChars \cup {".", "/", "-"}

\* the characters as one string
RECURSIVE Concat(_)
Concat(chars) == IF chars = <<>> THEN "" ELSE Head(chars) \o Concat(Tail(chars))

\* the end of the run of mention characters that starts at k
RECURSIVE RunEnd(_, _)
RunEnd(s, k) == IF k < Len(s) /\ s[k + 1] \in MentionChars THEN RunEnd(s, k + 1) ELSE k

\* re.findall(r"@([\w./-]+)", token)
RECURSIVE MentionsFrom(_, _)
MentionsFrom(s, k) ==
   IF k >= Len(s) THEN <<>>
   ELSE IF s[k] = "@" /\ s[k + 1] \in MentionChars
      THEN <<SubSeq(s, k + 1, RunEnd(s, k + 1))>> \o MentionsFrom(s, RunEnd(s, k + 1) + 1)
   ELSE MentionsFrom(s, k + 1)

\* _extract_mentions
RECURSIVE extract_mentions(_, _)
extract_mentions(text, k) ==
   IF k > Len(text) THEN <<>>
   ELSE MentionsFrom(Chars(text[k]), 1) \o extract_mentions(text, k + 1)

\* the first occurrences, in order
RECURSIVE Dedup(_, _)
Dedup(xs, k) ==
   IF k > Len(xs) THEN <<>>
   ELSE (IF \E j \in 1..(k - 1) : xs[j] = xs[k] THEN <<>> ELSE <<xs[k]>>)
        \o Dedup(xs, k + 1)

RECURSIVE MentionsOfAll(_, _)
MentionsOfAll(user_messages, k) ==
   IF k > Len(user_messages) THEN <<>>
   ELSE extract_mentions(user_messages[k], 1) \o MentionsOfAll(user_messages, k + 1)

all_mentions(user_messages) == Dedup(MentionsOfAll(user_messages, 1), 1)

\* the working directory: the regular files, and those that cannot be read
Disk(files, unreadable) == [files |-> files, unreadable |-> unreadable]

isfile(disk, mention) == Concat(mention) \in disk.files

\* _filter_valid_mentions
RECURSIVE filter_valid_mentions(_, _, _)
filter_valid_mentions(mentions, disk, k) ==
   IF k > Len(mentions) THEN <<>>
   ELSE (IF isfile(disk, mentions[k]) THEN <<mentions[k]>> ELSE <<>>)
        \o filter_valid_mentions(mentions, disk, k + 1)

\* _read_mentioned_files: the keys of the dict, in order
RECURSIVE read_mentioned_files(_, _, _)
read_mentioned_files(mentions, disk, k) ==
   IF k > Len(mentions) THEN <<>>
   ELSE (IF isfile(disk, mentions[k]) /\ Concat(mentions[k]) \notin disk.unreadable
            THEN <<mentions[k]>> ELSE <<>>)
        \o read_mentioned_files(mentions, disk, k + 1)

IGNORED_DOC_FILES == {"CLAUDE.md", "AGENTS.md", "README.md"}

\* os.path.basename
RECURSIVE basename(_)
basename(path) ==
   IF \E k \in 1..Len(path) : path[k] = "/"
      THEN basename(SubSeq(path, (CHOOSE k \in 1..Len(path) : path[k] = "/") + 1, Len(path)))
      ELSE path

has_documentation_references(files) ==
   \E k \in 1..Len(files) : Concat(basename(files[k])) \notin IGNORED_DOC_FILES

\* ", ".join(f"@{m}" for m in mentions)
RECURSIVE Refs(_, _)
Refs(mentions, k) ==
   IF k > Len(mentions) THEN ""
   ELSE (IF k > 1 THEN ", " ELSE "") \o "@" \o Concat(mentions[k]) \o Refs(mentions, k + 1)

WithRefs(message, mentions) ==
   IF mentions = <<>> THEN message
   ELSE message \o "\n\nReferenced documents: " \o Refs(mentions, 1)

(***************************************************************************)
(* hooks/base.py and hooks/stop.py: StopHook.handle                        *)
(***************************************************************************)
\* the attributes Hook.__init__ sets on a hook object, which are also the
\* keyword parameters it takes
HookAttributes == {"config", "llm_provider"}

KeepGoing == "Great work! Keep going."

StickToThePlan ==
   "Stick to the plan. Do it right. The reward at the end is worth it.\n\nBlocked: "

\* the replies an arbitration call may get; a reason is a text
StopReplies ==
   {LlmRaises, LlmNotObject,
    LlmContent([error |-> "Request timed out"])}
   \cup {LlmContent([decision |-> d, reason |-> r, message |-> m]) :
            d \in {"allow", "block", "kill"},
            r \in {<<"Task", "is", "complete">>, <<"Agent", "asks", "a", "question">>},
            m \in {"", "Next: run the tests."}}

\* word in reason_lower, for the words that justify an allow
JustifiedWords ==
   {<<"complete">>, <<"done">>, <<"finished">>, <<"all", "tests", "pass">>,
    <<"task", "accomplished">>,
    <<"cannot", "access">>, <<"requires", "human">>, <<"needs", "credential">>,
    <<"external">>, <<"unanswerable">>, <<"impossible">>, <<"no", "way", "to">>,
    <<"user", "preference">>, <<"personal", "choice">>, <<"need", "requirements">>,
    <<"no", "spec">>, <<"cannot", "answer">>, <<"requires", "user">>, <<"interactive">>,
    <<"clarification", "needed">>}

IsJustified(reason) ==
   \E w \in JustifiedWords : \E k \in 1..Len(Flat(reason, TRUE)) :
      OccursAt(Flat(reason, TRUE), Flat(w, FALSE), k)

\* lines 270-319: what becomes of the reply
StopDecision(reply, files, stages) ==
   IF reply.kind # "dict" THEN Raised("AttributeError", 1, stages)
   ELSE LET decision == Get(reply.content, "decision", "block")
            reason == Concat(Flat(Get(reply.content, "reason", <<>>), FALSE))
            message == Get(reply.content, "message", "")
        IN  IF decision = "kill"
               THEN [Returned(Kill(IF reason # "" THEN reason ELSE "Agent terminated"),
                              1, stages) EXCEPT !.killed = TRUE]
            ELSE IF decision = "allow"
               THEN IF ~has_documentation_references(files)
                       THEN Returned(Allow(reason), 1, stages)
                    ELSE IF IsJustified(Get(reply.content, "reason", <<>>))
                       THEN Returned(Allow(reason), 1, stages)
                    ELSE Returned(Block(WithRefs(KeepGoing, files), ""), 1, stages)
            ELSE Returned(Block(WithRefs(IF message # "" THEN message ELSE KeepGoing,
                                         files), ""), 1, stages)

\* lines 234-319: the arbitration by the LLM, when one is configured
arbitrated(valid_mentions, files, llm_provider, reply) ==
   IF NoLlm(llm_provider)
      THEN Returned(Block(WithRefs(KeepGoing, valid_mentions), ""), 0,
                    {"transcript", "extract", "precheck", "mentions"})
   ELSE IF reply.kind = "raise"
      THEN Raised("LLMError", 1,
                  {"transcript", "extract", "precheck", "mentions", "arbitration"})
   \* self.tracer is read next, and no hook object has that attribute
   ELSE IF "tracer" \notin HookAttributes
      THEN Raised("AttributeError", 1,
                  {"transcript", "extract", "precheck", "mentions", "arbitration"})
   ELSE StopDecision(reply, files,
                     {"transcript", "extract", "precheck", "mentions", "arbitration"})

\* lines 187-253: the precheck found block_reason in the last assistant
\* message; the mentions of the user messages are collected either way
prechecked(block_reason, last_assistant, mentions, llm_provider, reply, disk) ==
   IF last_assistant # <<>> /\ block_reason # ""
      THEN Returned(Block(WithRefs(StickToThePlan \o block_reason,
                                   filter_valid_mentions(mentions, disk, 1)), ""),
                    0, {"transcript", "extract", "precheck"})
      ELSE arbitrated(filter_valid_mentions(mentions, disk, 1),
                      read_mentioned_files(mentions, disk, 1), llm_provider, reply)

\* lines 179-221: the last assistant message and the user messages
extracted(user_messages, last_assistant, llm_provider, reply, disk) ==
   prechecked(check_permission_seeking(last_assistant), last_assistant,
              all_mentions(user_messages), llm_provider, reply, disk)

\* lines 175-185: the messages of the transcript
parsed(messages, llm_provider, reply, disk) ==
   IF messages = <<>>
      THEN Returned(Block(KeepGoing, ""), 0, {"transcript"})
   ELSE IF HasScalar(messages)
      THEN Raised("AttributeError", 0, {"transcript", "extract"})
   ELSE extracted(extract_all_user_messages(messages, 1),
                  extract_last_assistant(messages), llm_provider, reply, disk)

\* a handler that lets the agent stop when stop_hook_active is set
StopHook_handle_bypassing(hook_input, llm_provider, reply, disk) ==
   IF "stop_hook_active" \in DOMAIN hook_input /\ hook_input.stop_hook_active
      THEN Returned(Allow("Stop hook already active"), 0, {})
   ELSE IF ParseRaises(hook_input.transcript)
      THEN Raised(ParseError(hook_input.transcript), 0, {"transcript"})
      ELSE parsed(parse_transcript(hook_input.transcript), llm_provider, reply, disk)

\* StopHook.handle; the stages it went through are in consulted.  Of the
\* input it reads transcript_path only (cwd is the disk).
StopHook_handle(hook_input, llm_provider, reply, disk) ==
   IF ParseRaises(hook_input.transcript)
      THEN Raised(ParseError(hook_input.transcript), 0, {"transcript"})
      ELSE parsed(parse_transcript(hook_input.transcript), llm_provider, reply, disk)

(***************************************************************************)
(* Texts of the latest assistant message                                   *)
(***************************************************************************)
Phrases ==
   {<<"Ready", "for", "your", "feedback">>,
    <<"ready", "for", "feedback.">>,
    <<"ready", "for", "the", "feedback">>,
    <<"Should", "I", "proceed", "?">>,
    <<"should", "we", "proceed">>,
    <<"Would", "you", "like", "me", "to", "continue">>,
    <<"would", "you", "like", "to">>,
    <<"if", "you", "want">>,
    <<"If", "you", "would", "like">>,
    <<"Let", "me", "know", "if">>,
    <<"let", "me", "know">>,
    <<"Awaiting", "your">>,
    <<"waiting", "for", "further">>,
    <<"Please", "confirm">>,
    <<"please", "let", "me", "know">>,
    <<"Do", "you", "want", "me", "to">>,
    <<"Shall", "I", "go", "ahead">>,
    <<"shall", "I", "continue">>,
    <<"I", "can", "also", "help", "if", "you">>,
    <<"I", "can", "help">>,
    <<"What", "would", "you", "like", "me", "to">>,
    <<"I'm", "ready", "to">>,
    <<"I", "am", "ready", "for">>,
    <<"Next", "steps", "?">>,
    <<"next", "steps?">>,
    <<"Next", "steps">>,
    <<"time", "to", "implement">>,
    <<"The", "foundation", "is", "solid">>,
    <<"setup", "is", "ready">>,
    <<"ready", "to", "build">>,
    <<"now", "you", "can", "execute">>,
    <<"Now", "we", "can", "build">>,
    <<"The", "plan", "is", "complete.">>,
    <<"design", "is", "done">>,
    <<"I've", "made", "good", "progress">>,
    <<"I", "have", "made", "progress">>,
    <<"let", "me", "save", "this", "work">>,
    <<"summary", "follows">>,
    <<"due", "to", "the", "complexity">>,
    <<"Due", "to", "complexity">>,
    <<"session", "2", "summary">>,
    <<"session", "two", "recap">>,
    <<"All", "tests", "pass">>,
    <<"The", "work", "is", "done">>,
    <<"Done">>}

TextWords == {"now", "?", "you"}

Texts == {p \o a : p \in Phrases, a \in UNION {[1..n -> TextWords] : n \in 0..MaxWords}}

(***************************************************************************)
(* Inputs                                                                  *)
(***************************************************************************)
DefaultMap(disabled) ==
   CatMap([k \in 1..Len(CategoryOrder) |->
              <<CategoryOrder[k], CategoryOrder[k] \notin disabled>>])

\* None, the default dict with some categories off, a partial dict, and a
\* dict in another order with a key that is no category
CategoryMaps ==
   {NoCategories}
   \cup {DefaultMap(d) : d \in {x \in SUBSET Categories : Cardinality(x) <= MaxDisabled}}
   \cup {CatMap(<< <<"destructive_git", TRUE>> >>),
         CatMap(<< <<"custom", TRUE>>, <<"git_history", TRUE>>, <<"ci_bypass", FALSE>> >>)}

Fallbacks == {"block", "allow"}

\* the category maps of the tool calls: None, the default dict with no or
\* one category off, the partial dict and the reordered one
ToolCategoryMaps ==
   {NoCategories, DefaultMap({})}
   \cup {DefaultMap({c}) : c \in Categories}
   \cup {CatMap(<< <<"destructive_git", TRUE>> >>),
         CatMap(<< <<"custom", TRUE>>, <<"git_history", TRUE>>, <<"ci_bypass", FALSE>> >>)}

PreToolConfigs == [categories : ToolCategoryMaps, llm_fallback : Fallbacks]

Paths ==
   {".git/hooks/x", "a/.git/hooks/x", ".github/workflows/ci.yml", "pre-commit",
    "notes.txt", "a.py"}

FileTools == {"Read", "Write", "MultiEdit"}

PreToolInput(tool_name, tool_input) ==
   [hook_event_name |-> "PreToolUse", tool_name |-> tool_name, tool_input |-> tool_input]

PreToolInputs ==
   {PreToolInput("Bash", << <<"command", Str(c)>> >>) : c \in ToolCommands}
   \cup {PreToolInput("Bash", << <<"command", List(<<Str(<<"ls">>)>>)>> >>),
         PreToolInput("Bash", << <<"description", Str(<<"ls">>)>> >>)}
   \cup {PreToolInput(t, << <<"file_path", Str(<<f>>)>> >>) : t \in FileTools, f \in Paths}
   \cup {PreToolInput(t, << <<"file_path", Str(<<"notes.txt">>)>>, <<"content", Str(c)>> >>) :
            t \in FileTools, c \in {<<"chmod", "+x", "pre-commit">>, <<"git", "status">>}}
   \cup {PreToolInput(t, << <<"paths", List(<<Nested(<<f>>), Str(<<g>>)>>)>> >>) :
            t \in FileTools, f \in Paths, g \in Paths}
   \cup {PreToolInput(t, << <<"edits", Nested(<<f>>)>> >>) : t \in FileTools, f \in Paths}

(***************************************************************************)
(* The invocations.  pc is "idle" between invocations and "done" when one  *)
(* has produced its outcome; call holds the operation and its inputs, out  *)
(* what it came to.                                                        *)
(***************************************************************************)
NoCall == [op |-> "none"]

NoOut == [status |-> "none"]

Init ==
   /\ pc = "idle"
   /\ call = NoCall
   /\ out = NoOut
   /\ localSentinel = FALSE
   /\ globalSentinel = FALSE
   /\ modeFile = [local |-> "absent", global |-> "absent"]

Files == <<localSentinel, globalSentinel, modeFile>>

\* the invocation is over; the next one starts from the files alone
Return ==
   /\ pc = "done"
   /\ pc' = "idle"
   /\ call' = NoCall
   /\ out' = NoOut
   /\ UNCHANGED Files

CheckCommandCall ==
   /\ pc = "idle"
   /\ \E c \in Commands : \E m \in CategoryMaps :
         /\ call' = [op |-> "check_command", command |-> c, categories |-> m]
         /\ out' = check_command(c, m)
   /\ pc' = "done"
   /\ UNCHANGED Files

NeedsLlmCall ==
   /\ pc = "idle"
   /\ \E c \in Commands :
         /\ call' = [op |-> "needs_llm_classification", command |-> c]
         /\ out' = [needs_llm |-> needs_llm_classification(c)]
   /\ pc' = "done"
   /\ UNCHANGED Files

\* the reply is the environment's; it is drawn only when the provider is called
RepliesFor(llm_provider, replies) ==
   IF NoLlm(llm_provider) THEN {LlmRaises} ELSE replies

ClassifyCall ==
   /\ pc = "idle"
   /\ \E c \in ToolCommands : \E llm \in Providers : \E f \in Fallbacks :
      \E reply \in RepliesFor(llm, ClassifierReplies) :
         /\ call' = [op |-> "classify_command", command |-> c, llm_provider |-> llm,
                     fallback |-> f, reply |-> reply]
         /\ out' = classify_command(c, llm, f, reply)
   /\ pc' = "done"
   /\ UNCHANGED Files

PreToolCall ==
   /\ pc = "idle"
   /\ \E e \in PreToolInputs : \E cfg \in PreToolConfigs : \E llm \in Providers :
      \E reply \in RepliesFor(llm, ClassifierReplies) :
         /\ call' = [op |-> "PreToolHook.handle", hook_input |-> e, config |-> cfg,
                     llm_provider |-> llm, reply |-> reply]
         /\ out' = PreToolHook_handle(e, cfg, llm, reply)
   /\ pc' = "done"
   /\ UNCHANGED Files

SafetyNext == CheckCommandCall \/ NeedsLlmCall \/ ClassifyCall \/ PreToolCall \/ Return

SafetySpec == Init /\ [][SafetyNext]_vars

(***************************************************************************)
(* The Stop pipeline                                                       *)
(***************************************************************************)
StopLines ==
   {BlankLine, GarbageLine, ScalarLine,
    Message("role", "user", MsgStr(<<"Implement", "@docs/plan.md">>)),
    Message("type", "user",
            MsgList(<<TextBlock(<<"see", "@README.md", "@missing.md">>), ToolUseBlock>>)),
    Message("human", "user", MsgStr(<<"fix", "it">>)),
    Message("role", "assistant", MsgStr(<<"All", "tests", "pass">>)),
    Message("role", "assistant", MsgList(<<ToolUseBlock>>)),
    Message("type", "assistant", MsgList(<<TextBlock(<<"Should", "I", "proceed", "?">>)>>)),
    Message("type", "assistant", MsgStr(<<"I", "have", "made", "progress">>))}

\* no path given, no such file, a file that cannot be opened, and the files
Transcripts ==
   {TranscriptFile(path, <<>>) : path \in {"", "missing", "denied", "directory"}}
   \cup {TranscriptFile("file", lines) :
            lines \in UNION {[1..n -> StopLines] : n \in 0..MaxLines}}

Disks ==
   {Disk({}, {}),
    Disk({"docs/plan.md", "README.md"}, {}),
    Disk({"docs/plan.md", "README.md"}, {"docs/plan.md"})}

StopInput(transcript) == [hook_event_name |-> "Stop", transcript |-> transcript]

\* stop_hook_active: the key is missing, or its value is true or false
StopFlags == {"absent", "true", "false"}

WithFlag(hook_input, flag) ==
   IF flag = "absent"
      THEN [hook_event_name |-> hook_input.hook_event_name,
            transcript |-> hook_input.transcript]
      ELSE [hook_event_name |-> hook_input.hook_event_name,
            transcript |-> hook_input.transcript,
            stop_hook_active |-> (flag = "true")]

PermissionSeekingCall ==
   /\ pc = "idle"
   /\ \E text \in Texts :
         /\ call' = [op |-> "_check_permission_seeking", text |-> text]
         /\ out' = [block_reason |-> check_permission_seeking(text)]
   /\ pc' = "done"
   /\ UNCHANGED Files

StopCall ==
   /\ pc = "idle"
   /\ \E t \in Transcripts : \E disk \in Disks : \E llm \in Providers :
      \E reply \in RepliesFor(llm, StopReplies) : \E flag \in StopFlags :
         /\ call' = [op |-> "StopHook.handle",
                     hook_input |-> WithFlag(StopInput(t), flag),
                     llm_provider |-> llm, reply |-> reply, disk |-> disk]
         /\ out' = StopHook_handle(WithFlag(StopInput(t), flag), llm, reply, disk)
   /\ pc' = "done"
   /\ UNCHANGED Files

StopNext == PermissionSeekingCall \/ StopCall \/ Return

StopSpec == Init /\ [][StopNext]_vars

(***************************************************************************)
(* hooks/pre_compact.py: the git identity of the session                   *)
(***************************************************************************)
\* a file: missing, there but unreadable, or there with a content
NoFile == [exists |-> FALSE, readable |-> FALSE, content |-> ""]

Unreadable == [exists |-> TRUE, readable |-> FALSE, content |-> ""]

File(content) == [exists |-> TRUE, readable |-> TRUE, content |-> content]

\* str.startswith
startswith(s, prefix) ==
   Len(s) >= Len(prefix) /\ SubSeq(s, 1, Len(prefix)) = prefix

Whitespace == {" ", "\n", "\t"}

\* str.lstrip and str.rstrip
RECURSIVE lstrip(_)
lstrip(s) ==
   IF Len(s) > 0 /\ SubSeq(s, 1, 1) \in Whitespace THEN lstrip(SubSeq(s, 2, Len(s))) ELSE s

RECURSIVE rstrip(_)
rstrip(s) ==
   IF Len(s) > 0 /\ SubSeq(s, Len(s), Len(s)) \in Whitespace
      THEN rstrip(SubSeq(s, 1, Len(s) - 1)) ELSE s

strip(s) == lstrip(rstrip(s))

\* name in transcript_text
Contains(text, name) ==
   \E k \in 1..(Len(text) - Len(name) + 1) : SubSeq(text, k, k + Len(name) - 1) = name

\* Path(p).parent of an absolute path
RECURSIVE parent(_)
parent(path) ==
   IF Len(path) <= 1 THEN "/"
   ELSE IF SubSeq(path, Len(path), Len(path)) = "/"
      THEN (IF Len(path) = 1 THEN "/" ELSE SubSeq(path, 1, Len(path) - 1))
   ELSE parent(SubSeq(path, 1, Len(path) - 1))

\* a dict of strings: a function on the keys it has
EmptyDict == [k \in {} |-> ""]

OneKey(key, value) == [k \in {key} |-> value]

\* dict.update
update(d, e) == [k \in DOMAIN d \cup DOMAIN e |-> IF k \in DOMAIN e THEN e[k] ELSE d[k]]

\* the branch a stripped HEAD content names
branch_of(head_content) ==
   IF startswith(head_content, "ref: refs/heads/")
      THEN SubSeq(head_content, Len("ref: refs/heads/") + 1, Len(head_content))
   ELSE IF startswith(head_content, "ref:")
      THEN strip(SubSeq(head_content, Len("ref:") + 1, Len(head_content)))
   ELSE "(detached at "
        \o SubSeq(head_content, 1, IF Len(head_content) < 8 THEN Len(head_content) ELSE 8)
        \o ")"

\* _read_branch_from_head
read_branch_from_head(head_file) ==
   IF ~head_file.exists \/ ~head_file.readable THEN EmptyDict
   ELSE OneKey("branch", branch_of(strip(head_file.content)))

\* _resolve_worktree_path: "" stands for None
resolve_worktree_path(entry) ==
   IF ~entry.gitdir.exists THEN ""
   ELSE IF ~entry.gitdir.readable THEN ""
   ELSE parent(strip(entry.gitdir.content))

\* Optional[dict]
None == [some |-> FALSE, context |-> EmptyDict]

Some(context) == [some |-> TRUE, context |-> context]

\* lines 168-182: the entries that are directories with a HEAD file
candidates(worktrees) == {e \in worktrees : e.is_dir /\ e.head.exists}

\* lines 213-221: the context of the worktree that matched
context_of(entry) ==
   update(read_branch_from_head(entry.head),
          IF resolve_worktree_path(entry) # ""
             THEN OneKey("worktree_path", resolve_worktree_path(entry))
             ELSE EmptyDict)

\* a matching that takes a worktree that matched, however many did
first_worktree_context(matched) ==
   IF matched = {} THEN None
   ELSE Some(context_of(CHOOSE e \in matched : TRUE))

\* lines 199-221: the names that occur in the transcript; two of them are
\* ambiguous, none is no match
worktree_context(matched) ==
   IF Cardinality(matched) >= 2 THEN Some(EmptyDict)
   ELSE IF matched = {} THEN None
   ELSE Some(context_of(CHOOSE e \in matched : TRUE))

\* lines 184-221: the candidates against the transcript
matched_candidates(found, transcript) ==
   IF found = {} THEN None
   ELSE IF transcript.path = "" THEN None
   ELSE IF transcript.path # "file" THEN None
   ELSE worktree_context({e \in found : Contains(transcript.text, e.name)})

\* _match_worktree_from_transcript
match_worktree_from_transcript(git_dir, transcript) ==
   IF ~git_dir.worktrees_dir THEN None
   ELSE matched_candidates(candidates(git_dir.worktrees), transcript)

\* lines 110-130: the context of a primary checkout
primary_context(worktree_ctx, git_dir) ==
   IF worktree_ctx.some THEN worktree_ctx.context
   ELSE read_branch_from_head(git_dir.head)

\* _get_git_context: cwd is outside a repository, in a linked worktree
\* (.git is a file that names the git directory) or in a primary checkout
get_git_context(repo, transcript) ==
   IF repo.kind = "none" THEN EmptyDict
   ELSE IF repo.kind = "linked"
      THEN update(OneKey("worktree_path", repo.root), read_branch_from_head(repo.head))
   ELSE primary_context(match_worktree_from_transcript(repo, transcript), repo)

(***************************************************************************)
(* The git directories and the transcripts of PreCompact                   *)
(***************************************************************************)
HeadOf(branch) == File("ref: refs/heads/" \o branch \o "\n")

Detached == File("0123456789abcdef0123\n")

\* what git worktree add registers under .git/worktrees/<name>
Registered(name, branch) ==
   [name |-> name, is_dir |-> TRUE, branch |-> branch, path |-> "/work/" \o name,
    head |-> HeadOf(branch), gitdir |-> File("/work/" \o name \o "/.git\n")]

WorktreeNames == {"wt", "wt-alpha", "wt-beta"}

\* the entries a name may have: registered, on a detached HEAD, with a HEAD
\* that cannot be read, and the leftovers that are no worktree (a plain
\* file, no HEAD, no gitdir file)
EntriesOf(name) ==
   {Registered(name, "feature/" \o name),
    [Registered(name, "") EXCEPT !.head = Detached],
    [Registered(name, "feature/" \o name) EXCEPT !.head = Unreadable],
    [Registered(name, "feature/" \o name) EXCEPT !.is_dir = FALSE],
    [Registered(name, "feature/" \o name) EXCEPT !.head = NoFile],
    [Registered(name, "feature/" \o name) EXCEPT !.gitdir = NoFile]}

Registries ==
   {r \in SUBSET UNION {EntriesOf(name) : name \in WorktreeNames} :
       /\ Cardinality(r) <= MaxWorktrees
       /\ \A e1, e2 \in r : e1.name = e2.name => e1 = e2}

Primary(head, worktrees_dir, worktrees) ==
   [kind |-> "primary", root |-> "/work/main-repo", head |-> head,
    worktrees_dir |-> worktrees_dir, worktrees |-> worktrees]

Repos ==
   {[kind |-> "none", root |-> "", head |-> NoFile,
     worktrees_dir |-> FALSE, worktrees |-> {}],
    [kind |-> "linked", root |-> "/work/wt-alpha", head |-> HeadOf("feature/a"),
     worktrees_dir |-> FALSE, worktrees |-> {}]}
   \cup {Primary(head, FALSE, {}) : head \in {HeadOf("main"), Detached}}
   \cup {Primary(head, TRUE, r) : head \in {HeadOf("main"), Detached}, r \in Registries}

CompactTexts ==
   {"", "fix the bug in main", "cd /work/wt-alpha/src", "git worktree add ../wt-beta",
    "compare /work/wt-alpha and /work/wt-beta", "see /work/wt/a.py"}

CompactTranscripts ==
   {[path |-> path, text |-> ""] : path \in {"", "missing"}}
   \cup {[path |-> "file", text |-> text] : text \in CompactTexts}

GitContextCall ==
   /\ pc = "idle"
   /\ \E repo \in Repos : \E transcript \in CompactTranscripts :
         /\ call' = [op |-> "_get_git_context", repo |-> repo, transcript |-> transcript]
         /\ out' = [status |-> "returned", context |-> get_git_context(repo, transcript)]
   /\ pc' = "done"
   /\ UNCHANGED Files

CompactNext == GitContextCall \/ Return

CompactSpec == Init /\ [][CompactNext]_vars

(***************************************************************************)
(* hooks/pre_compact.py: PreCompactHook.handle                             *)
(***************************************************************************)
DEFAULT_CONTEXT_FILES == <<"CLAUDE.md", "AGENTS.md", "README.md">>

\* the members of names that satisfy: in files (keep) or not in files (~keep)
RECURSIVE Filter(_, _, _, _)
Filter(names, files, keep, k) ==
   IF k > Len(names) THEN <<>>
   ELSE (IF (names[k] \in files) = keep THEN <<names[k]>> ELSE <<>>)
        \o Filter(names, files, keep, k + 1)

\* _find_default_files
find_default_files(disk) == Filter(DEFAULT_CONTEXT_FILES, disk.files, TRUE, 1)

\* what is written in a file of the working directory
FileText(name) == "# " \o name \o "\nRules of the project.\n"

\* lines 281-284: MAX_QUOTE_LENGTH
quoted_text(text) ==
   IF Len(text) > 10000 THEN SubSeq(text, 1, 10000) \o "\n... [truncated]" ELSE text

\* _read_context_files: the names whose content was read
read_context_files(disk, filenames) == Filter(filenames, disk.unreadable, FALSE, 1)

\* sep.join(parts), of strings
RECURSIVE join(_, _)
join(sep, parts) ==
   IF parts = <<>> THEN ""
   ELSE IF Len(parts) = 1 THEN parts[1]
   ELSE parts[1] \o sep \o join(sep, Tail(parts))

\* _get_user_content: the content of a user message, <<>> for None and ""
get_user_content(msg) ==
   IF msg.tag \in {"type", "role"} /\ msg.role = "user"
      THEN ContentText(msg.content) ELSE <<>>

\* lines 305-324: the mentions of the user messages, in order
RECURSIVE mentions_of_lines(_, _)
mentions_of_lines(messages, k) ==
   IF k > Len(messages) THEN <<>>
   ELSE extract_mentions(get_user_content(messages[k]), 1)
        \o mentions_of_lines(messages, k + 1)

RECURSIVE Strings(_, _)
Strings(mentions, k) ==
   IF k > Len(mentions) THEN <<>>
   ELSE <<Concat(mentions[k])>> \o Strings(mentions, k + 1)

\* _extract_user_refs, of a transcript that can be read
extract_user_refs(transcript) ==
   Strings(Dedup(mentions_of_lines(parse_transcript(transcript), 1), 1), 1)

\* lines 391-398: the git identity line
git_part(git_context) ==
   IF DOMAIN git_context = {} THEN <<>>
   ELSE <<join(" | ",
               (IF "branch" \in DOMAIN git_context
                   THEN <<"Branch: " \o git_context["branch"]>> ELSE <<>>)
               \o (IF "worktree_path" \in DOMAIN git_context
                      THEN <<"Worktree: " \o git_context["worktree_path"]>> ELSE <<>>))>>

RECURSIVE quotes(_, _)
quotes(quoted, k) ==
   IF k > Len(quoted) THEN <<>>
   ELSE <<"\n--- " \o quoted[k] \o " ---\n" \o quoted_text(FileText(quoted[k]))>>
        \o quotes(quoted, k + 1)

\* lines 400-410: the default files, listed or quoted
files_part(unquoted, quoted) ==
   (IF unquoted # <<>> THEN <<"Context: " \o join(", ", unquoted)>> ELSE <<>>)
   \o quotes(quoted, 1)

RECURSIVE at_refs(_, _)
at_refs(user_refs, k) ==
   IF k > Len(user_refs) \/ k > 20 THEN <<>>
   ELSE <<"@" \o user_refs[k]>> \o at_refs(user_refs, k + 1)

\* lines 408-410: the references of the user
refs_part(user_refs) ==
   IF user_refs = <<>> THEN <<>> ELSE <<"Refs: " \o join(", ", at_refs(user_refs, 1))>>

\* a reminder that puts the references of the user first
build_context_reminder_refs_first(unquoted, quoted, user_refs, git_context) ==
   join("\n", refs_part(user_refs) \o git_part(git_context) \o files_part(unquoted, quoted))

\* _build_context_reminder; the files come as those listed and those quoted
build_context_reminder(unquoted, quoted, user_refs, git_context) ==
   join("\n", git_part(git_context) \o files_part(unquoted, quoted) \o refs_part(user_refs))

\* the files of context_files that are in file_contents, or are not
RECURSIVE Split2(_, _, _, _)
Split2(files, file_contents, keep, k) ==
   IF k > Len(files) THEN <<>>
   ELSE (IF (\E j \in 1..Len(file_contents) : file_contents[j] = files[k]) = keep
            THEN <<files[k]>> ELSE <<>>)
        \o Split2(files, file_contents, keep, k + 1)

\* lines 59-70: the result
composed(git_context, context_files, file_contents, user_refs) ==
   IF context_files = <<>> /\ user_refs = <<>> /\ DOMAIN git_context = {}
      THEN Returned(Allow("No context to preserve"), 0, {})
      ELSE Returned(WithContext(
                       build_context_reminder(Split2(context_files, file_contents, FALSE, 1),
                                              Split2(context_files, file_contents, TRUE, 1),
                                              user_refs, git_context)), 0, {})

\* the words of the transcript file, for the search of the worktree names
RECURSIVE words_of_lines(_, _)
words_of_lines(lines, k) ==
   IF k > Len(lines) THEN <<>>
   ELSE <<lines[k].role>> \o ContentText(lines[k].content) \o words_of_lines(lines, k + 1)

transcript_text(transcript) ==
   [path |-> transcript.path, text |-> join(" ", words_of_lines(transcript.lines, 1))]

\* PreCompactHook.handle: _extract_user_refs catches FileNotFoundError and
\* PermissionError only, and calls msg.get on every JSON value
PreCompactHook_handle(hook_input, config, repo, disk) ==
   IF hook_input.transcript.path = "directory" THEN Raised("IsADirectoryError", 0, {})
   ELSE IF HasScalar(parse_transcript(hook_input.transcript))
      THEN Raised("AttributeError", 0, {})
   ELSE composed(IF config.inject_git_context
                    THEN get_git_context(repo, transcript_text(hook_input.transcript))
                    ELSE EmptyDict,
                 find_default_files(disk),
                 IF config.quote_context_files
                    THEN read_context_files(disk, find_default_files(disk))
                    ELSE <<>>,
                 extract_user_refs(hook_input.transcript))

(***************************************************************************)
(* The sessions that are compacted                                         *)
(***************************************************************************)
\* a user message with more references than a reminder shows
ManyRefs == [k \in 1..21 |-> "@notes/" \o ToString(k) \o ".md"]

CompactLines ==
   {GarbageLine, ScalarLine,
    Message("role", "user", MsgStr(<<"Implement", "@docs/plan.md", "cf.", "@docs/plan.md">>)),
    Message("type", "user",
            MsgList(<<TextBlock(<<"see", "@README.md", "@gone.md">>), ToolUseBlock>>)),
    Message("human", "user", MsgStr(<<"read", "@legacy.md">>)),
    Message("role", "assistant", MsgStr(<<"cd", "/work/wt-alpha", "@draft.md">>)),
    Message("role", "user", MsgStr(ManyRefs))}

PreCompactTranscripts ==
   {TranscriptFile(path, <<>>) : path \in {"", "missing", "denied", "directory"}}
   \cup {TranscriptFile("file", lines) :
            lines \in UNION {[1..n -> CompactLines] : n \in 0..MaxLines}}

CompactRepos ==
   {[kind |-> "none", root |-> "", head |-> NoFile,
     worktrees_dir |-> FALSE, worktrees |-> {}],
    [kind |-> "linked", root |-> "/work/wt-alpha", head |-> HeadOf("feature/a"),
     worktrees_dir |-> FALSE, worktrees |-> {}],
    Primary(HeadOf("main"), FALSE, {}),
    Primary(HeadOf("main"), TRUE,
            {Registered("wt-alpha", "feature/a"), Registered("wt-beta", "feature/b")})}

CompactDisks ==
   {Disk({}, {}), Disk({"README.md"}, {}),
    Disk({"CLAUDE.md", "README.md", "docs/plan.md"}, {"CLAUDE.md"})}

PreCompactCall ==
   /\ pc = "idle"
   /\ \E t \in PreCompactTranscripts : \E repo \in CompactRepos : \E disk \in CompactDisks :
      \E git \in BOOLEAN : \E quote \in BOOLEAN :
         /\ call' = [op |-> "PreCompactHook.handle",
                     hook_input |-> [hook_event_name |-> "PreCompact", transcript |-> t],
                     config |-> [inject_git_context |-> git, quote_context_files |-> quote],
                     repo |-> repo, disk |-> disk]
         /\ out' = PreCompactHook_handle(
                      [hook_event_name |-> "PreCompact", transcript |-> t],
                      [inject_git_context |-> git, quote_context_files |-> quote],
                      repo, disk)
   /\ pc' = "done"
   /\ UNCHANGED Files

(***************************************************************************)
(* hooks/tool_failure.py: ToolFailureHook.handle                           *)
(***************************************************************************)
\* a JSON value of the hook input as the hook looks at it: a string, a dict
\* (a sequence of <<key, value>>) or another value; text is str(value)
JStr(text) == [kind |-> "str", text |-> text, items |-> <<>>]

JDict(text, items) == [kind |-> "dict", text |-> text, items |-> items]

JOther(text) == [kind |-> "other", text |-> text, items |-> <<>>]

HasKey(d, key) == \E k \in 1..Len(d.items) : d.items[k][1] = key

ValueOf(d, key) == d.items[CHOOSE k \in 1..Len(d.items) : d.items[k][1] = key][2]

\* lines 139-145: the first of the keys that the response has
RECURSIVE first_error_key(_, _, _)
first_error_key(tool_response, keys, k) ==
   IF k > Len(keys) THEN tool_response.text
   ELSE IF HasKey(tool_response, keys[k]) THEN ValueOf(tool_response, keys[k]).text
   ELSE first_error_key(tool_response, keys, k + 1)

\* _extract_error
extract_error(tool_response) ==
   IF tool_response.kind = "dict"
      THEN first_error_key(tool_response, <<"error", "stderr", "message", "output">>, 1)
      ELSE tool_response.text

confidence_order == <<"low", "medium", "high">>

Tiers == {confidence_order[k] : k \in 1..Len(confidence_order)}

\* list.index, of a member of the list
index(order, x) == CHOOSE k \in 1..Len(order) : order[k] = x

BasicHint ==
   "[HINT (low)]: Check command syntax and try again! "
   \o "(Note: Configure LLM in ~/.bdb/config.yaml for smarter hints)"

\* lines 124-132: the threshold
hint(confidence, advice, threshold) ==
   IF confidence \notin Tiers \/ threshold \notin Tiers
      THEN Raised("ValueError", 1, {"extract", "llm"})
   ELSE IF index(confidence_order, confidence) < index(confidence_order, threshold)
      THEN Returned(Allow("Confidence below threshold"), 1, {"extract", "llm"})
   ELSE Returned(WithContext("[HINT (" \o confidence \o ")]: " \o advice), 1,
                 {"extract", "llm"})

\* lines 121-132: the advice and the confidence of the reply
advised(reply, threshold) ==
   IF reply.kind # "dict" THEN Raised("AttributeError", 1, {"extract", "llm"})
   ELSE hint(Get(reply.content, "confidence", "low"),
             Get(reply.content, "advice", "Check command syntax and try again!"),
             threshold)

\* lines 88-132: the call of the LLM
asked(tool_input, reply, threshold) ==
   IF tool_input.kind # "dict" THEN Raised("AttributeError", 0, {"extract"})
   ELSE IF reply.kind = "raise" THEN Raised("LLMError", 1, {"extract", "llm"})
   \* self.tracer is read next, and no hook object has that attribute
   ELSE IF "tracer" \notin HookAttributes
      THEN Raised("AttributeError", 1, {"extract", "llm"})
   ELSE advised(reply, threshold)

\* lines 76-132: after the error output was extracted
failed_with(error_output, tool_input, threshold, llm_provider, reply) ==
   IF strip(error_output) = "" THEN Returned(Allow("No error output"), 0, {"extract"})
   ELSE IF NoLlm(llm_provider) THEN Returned(WithContext(BasicHint), 0, {"extract"})
   ELSE asked(tool_input, reply, threshold)

\* ToolFailureHook.handle
ToolFailureHook_handle(hook_input, config, llm_provider, reply) ==
   failed_with(extract_error(hook_input.tool_response), hook_input.tool_input,
               config.confidence_threshold, llm_provider, reply)

(***************************************************************************)
(* The failures of tools and the replies of the LLM                        *)
(***************************************************************************)
ToolResponses ==
   {JStr(""), JStr("  \n"), JStr("bash: pytset: command not found"),
    JOther("None"),
    JDict("{'error': 'boom'}", << <<"error", JStr("boom")>> >>),
    JDict("{'stderr': '', 'output': 'text'}",
          << <<"stderr", JStr("")>>, <<"output", JStr("text")>> >>),
    JDict("{'output': 'text', 'message': 'failed'}",
          << <<"output", JStr("text")>>, <<"message", JStr("failed")>> >>),
    JDict("{'error': 1}", << <<"error", JOther("1")>> >>),
    JDict("{'code': 1}", << <<"code", JOther("1")>> >>)}

ToolFailureInputs ==
   {[hook_event_name |-> "PostToolUseFailure", tool_name |-> "Bash",
     tool_input |-> ti, tool_response |-> tr] :
       ti \in {JDict("{'command': 'pytset'}", << <<"command", JStr("pytset")>> >>),
               JDict("{}", <<>>), JStr("pytset")},
       tr \in ToolResponses}

\* confidence_threshold is any string of the configuration file
Thresholds == Tiers \cup {"urgent"}

ToolFailureReplies ==
   {LlmRaises, LlmNotObject, LlmContent([error |-> "Request timed out"]),
    LlmContent([advice |-> "Run 'tool --help'. Keep going!"])}
   \cup {LlmContent([advice |-> "Use --name instead of -n. Try again!", confidence |-> c]) :
            c \in Tiers \cup {"certain"}}

ToolFailureCall ==
   /\ pc = "idle"
   /\ \E e \in ToolFailureInputs : \E threshold \in Thresholds : \E llm \in Providers :
      \E reply \in RepliesFor(llm, ToolFailureReplies) :
         /\ call' = [op |-> "ToolFailureHook.handle", hook_input |-> e,
                     config |-> [confidence_threshold |-> threshold],
                     llm_provider |-> llm, reply |-> reply]
         /\ out' = ToolFailureHook_handle(e, [confidence_threshold |-> threshold],
                                          llm, reply)
   /\ pc' = "done"
   /\ UNCHANGED Files

ContextNext == PreCompactCall \/ ToolFailureCall \/ Return

ContextSpec == Init /\ [][ContextNext]_vars

(***************************************************************************)
(* pause.py and mode.py: the files that outlive an invocation.  There is   *)
(* one repository; an invocation runs inside it (in_repo) or outside.      *)
(***************************************************************************)
\* a pause check that looks at the global sentinel only
is_paused_global_only(in_repo) ==
   IF globalSentinel THEN [paused |-> TRUE, sentinel |-> "global"]
   ELSE [paused |-> FALSE, sentinel |-> "none"]

\* is_paused: the local sentinel first, when in a repository
is_paused(in_repo) ==
   IF in_repo /\ localSentinel THEN [paused |-> TRUE, sentinel |-> "local"]
   ELSE IF globalSentinel THEN [paused |-> TRUE, sentinel |-> "global"]
   ELSE [paused |-> FALSE, sentinel |-> "none"]

Modes == {"default", "auto", "interactive"}

\* get_mode: the local mode file first, when in a repository
get_mode(in_repo) ==
   IF in_repo /\ modeFile.local \in Modes THEN modeFile.local
   ELSE IF modeFile.global \in Modes THEN modeFile.global
   ELSE "default"

(***************************************************************************)
(* supervisor.py                                                           *)
(***************************************************************************)
HookEvents == {"Stop", "PreToolUse", "PostToolUseFailure", "PreCompact"}

\* the keyword arguments get_hook passes to the hook class
GetHookKeywords == {"config", "llm_provider", "tracer"}

\* get_hook: no hook ("none"), a hook ("hook"), or the TypeError of a
\* constructor called with a keyword it does not take ("TypeError")
get_hook(event_name, enabled) ==
   IF event_name \notin HookEvents THEN "none"
   ELSE IF event_name \notin enabled THEN "none"
   ELSE IF GetHookKeywords \subseteq HookAttributes THEN "hook"
   ELSE "TypeError"

\* the pipelines of the other two events: any result, or an exception
OtherOutcomes ==
   {Returned(Allow(""), 0, {}), Returned(WithContext("hint"), 0, {}),
    Raised("Exception", 0, {})}

\* hook.handle(hook_input, debug)
Hook_handle(hook_input, env) ==
   CASE hook_input.hook_event_name = "PreToolUse" ->
           PreToolHook_handle(hook_input, env.pre_tool, env.llm_provider, env.reply)
     [] hook_input.hook_event_name = "Stop" ->
           StopHook_handle(hook_input, env.llm_provider, env.reply, env.disk)
     [] OTHER -> env.other

\* stdin: not JSON, a JSON value that is no object, or an event
Malformed == [json |-> "malformed", hook_input |-> [hook_event_name |-> ""]]

NotObject == [json |-> "array", hook_input |-> [hook_event_name |-> ""]]

Event(hook_input) == [json |-> "object", hook_input |-> hook_input]

\* lines 211-233: an exception of the hook becomes Allow
allow_on_failure(outcome) ==
   IF outcome.status = "raised"
      THEN Returned(Allow("Hook failed: " \o outcome.exc),
                    outcome.llm_calls, outcome.consulted)
      ELSE outcome

\* lines 197-233: the hook that get_hook built, or what it raised
dispatched(hook, hook_input, env) ==
   IF hook = "TypeError" THEN Raised("TypeError", 0, {})
   ELSE IF hook = "none"
      THEN Returned(Allow("No handler for " \o hook_input.hook_event_name), 0, {})
   ELSE allow_on_failure(Hook_handle(hook_input, env))

\* Supervisor.handle
Supervisor_handle(raw, env) ==
   IF raw.json # "object" THEN Raised("AttributeError", 0, {})
   ELSE IF is_paused(env.in_repo).paused
      THEN Returned(Allow("BDB is paused"), 0, {})
   ELSE IF raw.hook_input.hook_event_name = "Stop" /\ get_mode(env.in_repo) = "interactive"
      THEN Returned(Allow("Interactive mode"), 0, {})
   ELSE dispatched(get_hook(raw.hook_input.hook_event_name, env.enabled),
                   raw.hook_input, env)

\* HookResult.to_dict
to_dict(result) ==
   IF result.decision = "block"
      THEN [decision |-> "block",
            reason |-> IF result.message # "" THEN result.message ELSE result.reason]
   ELSE IF result.additional_context # ""
      THEN [hookSpecificOutput |-> [additionalContext |-> result.additional_context]]
   ELSE [empty |-> TRUE]

\* the end of the process
Exited(exit_status, stdout) ==
   [status |-> "exited", exit_status |-> exit_status, stdout |-> stdout]

Nothing == [empty |-> TRUE]

\* the output and the exit of the process after Supervisor.handle: the
\* result is printed and the status is 0, unless handle raised
exit_after(outcome, status_when_raised) ==
   IF outcome.status = "raised" THEN Exited(status_when_raised, Nothing)
   ELSE Exited(0, to_dict(outcome.result))

\* run() and Supervisor.run_stdin: every path ends in sys.exit(0)
run_stdin(raw, config_ok, env) ==
   IF ~config_ok THEN Exited(0, Nothing)
   ELSE IF raw.json = "malformed" THEN Exited(0, Nothing)
   ELSE IF raw.json # "object" THEN Exited(0, Nothing)
   ELSE exit_after(Supervisor_handle(raw, env), 0)

(***************************************************************************)
(* cli.py: the run command that the agents' hook systems invoke            *)
(***************************************************************************)
\* an exception that leaves the command ends the process with status 1
cli_run(raw, config_ok, env) ==
   IF raw.json = "malformed" THEN Exited(0, Nothing)
   ELSE IF ~config_ok THEN Exited(0, Nothing)
   ELSE exit_after(Supervisor_handle(raw, env), 1)

(***************************************************************************)
(* The supervisor process and the commands that change its files           *)
(***************************************************************************)
SupervisorReplies == {LlmRaises, LlmContent([decision |-> "allow"])}

\* the configuration and the surroundings of one invocation
Envs ==
   {[in_repo |-> r, enabled |-> e, llm_provider |-> llm, reply |-> reply, other |-> o,
     pre_tool |-> [categories |-> NoCategories, llm_fallback |-> "block"],
     disk |-> Disk({"docs/plan.md", "README.md"}, {})] :
       r \in BOOLEAN, e \in {HookEvents, HookEvents \ {"Stop"}},
       llm \in {"none", "configured"}, reply \in SupervisorReplies, o \in OtherOutcomes}

Events ==
   {PreToolInput("Bash", << <<"command", Str(c)>> >>) :
       c \in {<<"ls">>, <<"git", "reset", "--hard">>, <<"rm", "-rf", "node_modules">>}}
   \cup {PreToolInput("Write", << <<"file_path", Str(<<"pre-commit">>)>> >>)}
   \cup {StopInput(t) :
            t \in {TranscriptFile("", <<>>), TranscriptFile("denied", <<>>),
                   TranscriptFile("file",
                      <<Message("role", "user", MsgStr(<<"fix", "it">>)),
                        Message("role", "assistant", MsgStr(<<"All", "tests", "pass">>))>>)}}
   \cup {[hook_event_name |-> name] :
            name \in {"PostToolUseFailure", "PreCompact", "Notification", ""}}

Stdin == {Malformed, NotObject} \cup {Event(e) : e \in Events}

SupervisorHandleCall ==
   /\ pc = "idle"
   /\ \E raw \in Stdin \ {Malformed} : \E env \in Envs :
         /\ call' = [op |-> "Supervisor.handle", raw |-> raw, env |-> env, config_ok |-> TRUE]
         /\ out' = Supervisor_handle(raw, env)
   /\ pc' = "done"
   /\ UNCHANGED Files

RunStdinCall ==
   /\ pc = "idle"
   /\ \E raw \in Stdin : \E env \in Envs : \E config_ok \in BOOLEAN :
         /\ call' = [op |-> "run", raw |-> raw, env |-> env, config_ok |-> config_ok]
         /\ out' = run_stdin(raw, config_ok, env)
   /\ pc' = "done"
   /\ UNCHANGED Files

CliRunCall ==
   /\ pc = "idle"
   /\ \E raw \in Stdin : \E env \in Envs : \E config_ok \in BOOLEAN :
         /\ call' = [op |-> "bdb run", raw |-> raw, env |-> env, config_ok |-> config_ok]
         /\ out' = cli_run(raw, config_ok, env)
   /\ pc' = "done"
   /\ UNCHANGED Files

\* bdb pause [--global]
PauseCall ==
   /\ pc = "idle"
   /\ \E use_global \in BOOLEAN : \E in_repo \in BOOLEAN :
         /\ call' = [op |-> "bdb pause", use_global |-> use_global, in_repo |-> in_repo]
         /\ IF use_global \/ ~in_repo
               THEN /\ globalSentinel' = TRUE
                    /\ UNCHANGED localSentinel
               ELSE /\ localSentinel' = TRUE
                    /\ UNCHANGED globalSentinel
   /\ out' = Exited(0, Nothing)
   /\ pc' = "done"
   /\ UNCHANGED modeFile

\* bdb resume [--global]
ResumeCall ==
   /\ pc = "idle"
   /\ \E use_global \in BOOLEAN : \E in_repo \in BOOLEAN :
         /\ call' = [op |-> "bdb resume", use_global |-> use_global, in_repo |-> in_repo]
         /\ IF use_global \/ is_paused(in_repo).sentinel = "global"
               THEN /\ globalSentinel' = FALSE
                    /\ UNCHANGED localSentinel
            ELSE IF is_paused(in_repo).sentinel = "local"
               THEN /\ localSentinel' = FALSE
                    /\ UNCHANGED globalSentinel
            ELSE UNCHANGED <<localSentinel, globalSentinel>>
   /\ out' = Exited(0, Nothing)
   /\ pc' = "done"
   /\ UNCHANGED modeFile

\* set_mode(mode, use_global)
SetModeCall ==
   /\ pc = "idle"
   /\ \E mode \in Modes : \E use_global \in BOOLEAN : \E in_repo \in BOOLEAN :
         /\ call' = [op |-> "set_mode", mode |-> mode, use_global |-> use_global,
                     in_repo |-> in_repo]
         /\ IF use_global
               THEN /\ modeFile' = [modeFile EXCEPT !.global = mode]
                    /\ out' = Returned(Allow(""), 0, {})
            ELSE IF in_repo
               THEN /\ modeFile' = [modeFile EXCEPT !.local = mode]
                    /\ out' = Returned(Allow(""), 0, {})
            ELSE /\ UNCHANGED modeFile
                 /\ out' = Raised("ValueError", 0, {})
   /\ pc' = "done"
   /\ UNCHANGED <<localSentinel, globalSentinel>>

\* clear_mode(use_global)
ClearModeCall ==
   /\ pc = "idle"
   /\ \E use_global \in BOOLEAN : \E in_repo \in BOOLEAN :
         /\ call' = [op |-> "clear_mode", use_global |-> use_global, in_repo |-> in_repo]
         /\ IF use_global THEN modeFile' = [modeFile EXCEPT !.global = "absent"]
            ELSE IF in_repo THEN modeFile' = [modeFile EXCEPT !.local = "absent"]
            ELSE UNCHANGED modeFile
   /\ out' = Returned(Allow(""), 0, {})
   /\ pc' = "done"
   /\ UNCHANGED <<localSentinel, globalSentinel>>

Next ==
   \/ SupervisorHandleCall
   \/ RunStdinCall
   \/ CliRunCall
   \/ PauseCall
   \/ ResumeCall
   \/ SetModeCall
   \/ ClearModeCall
   \/ Return

Spec == Init /\ [][Next]_vars

(***************************************************************************)
(* The results of the pipelines and of the Supervisor, and their output    *)
(***************************************************************************)
HandlerOps ==
   {"PreToolHook.handle", "StopHook.handle", "ToolFailureHook.handle",
    "PreCompactHook.handle", "Supervisor.handle"}

\* print(json.dumps(result.to_dict())), of the result of a handler
ToDictCall ==
   /\ pc = "done"
   /\ call.op \in HandlerOps
   /\ out.status = "returned"
   /\ call' = [op |-> "to_dict", result |-> out.result]
   /\ out' = [stdout |-> to_dict(out.result)]
   /\ pc' = "done"
   /\ UNCHANGED Files

ResultNext ==
   \/ PreToolCall
   \/ StopCall
   \/ ToolFailureCall
   \/ PreCompactCall
   \/ SupervisorHandleCall
   \/ ToDictCall
   \/ Return

ResultSpec == Init /\ [][ResultNext]_vars

(***************************************************************************)
(* What the claims speak of                                                *)
(***************************************************************************)
\* the category is enabled by the map (None enables all of them)
EnabledIn(m, cat) ==
   m.none \/ \E k \in 1..Len(m.items) : m.items[k] = <<cat, TRUE>>

\* the categories with a rule the command matches
MatchedCategories(command) ==
   {cat \in Categories :
      \E n \in 1..Len(SAFETY_CATEGORIES[cat]) :
         Search(SAFETY_CATEGORIES[cat][n].alts, command)}

ReasonsOf(cat) ==
   {SAFETY_CATEGORIES[cat][n].reason : n \in 1..Len(SAFETY_CATEGORIES[cat])}

\* the command matches rules, and only rules of categories that are not enabled
OnlyDisabledMatch(command, m) ==
   /\ MatchedCategories(command) # {}
   /\ \A cat \in MatchedCategories(command) : ~EnabledIn(m, cat)

\* a top-level string, or a string element of a top-level list, is protected
Offending(tool_input) ==
   \E k \in 1..Len(tool_input) :
      \/ /\ tool_input[k][2].kind = "str"
         /\ ProtectedHit(tool_input[k][2].text)
      \/ /\ tool_input[k][2].kind = "list"
         /\ \E j \in 1..Len(tool_input[k][2].items) :
               /\ tool_input[k][2].items[j].kind = "str"
               /\ ProtectedHit(tool_input[k][2].items[j].text)

OffendingInList(tool_input) ==
   \E k \in 1..Len(tool_input) :
      /\ tool_input[k][2].kind = "list"
      /\ \E j \in 1..Len(tool_input[k][2].items) :
            /\ tool_input[k][2].items[j].kind = "str"
            /\ ProtectedHit(tool_input[k][2].items[j].text)

NotConfigured(llm_provider) == llm_provider \in {"none", "unconfigured"}

IsBlock(o) == o.status = "returned" /\ o.result.decision = "block"

IsAllow(o) == o.status = "returned" /\ o.result.decision = "allow"

Done(op) == pc = "done" /\ call.op = op

\* git log, git show, git blame: digging in the history
HistoryDigging(command) ==
   /\ Len(command) >= 2
   /\ command[1] = "git"
   /\ command[2] \in {"log", "show", "blame"}

AmbiguousIntent(command) == MatchesNeedsLlm(command) \/ HistoryDigging(command)

\* the command of a Bash tool call, <<>> for another call
BashCommand(hook_input) ==
   IF /\ hook_input.tool_name = "Bash"
      /\ HasField(hook_input.tool_input, "command")
      /\ Field(hook_input.tool_input, "command").kind = "str"
      THEN Field(hook_input.tool_input, "command").text
      ELSE <<>>

\* the transcript is empty or unreadable: no path, no file, a file that
\* cannot be opened, or a file without a line that parses
EmptyOrUnreadable(transcript) ==
   \/ transcript.path \in {"", "missing", "denied", "directory"}
   \/ \A k \in 1..Len(transcript.lines) : transcript.lines[k].kind \in {"blank", "garbage"}

(***************************************************************************)
(* The claims                                                              *)
(***************************************************************************)
\* C1: Supervisor.handle never propagates an exception to its caller: for
\* every event, whatever goes wrong on the way to a decision (selecting the
\* pipeline, building the pipeline object, running it) ends in an Allow.
C1_HandleNeverRaises ==
   (Done("Supervisor.handle") /\ call.raw.json = "object") => out.status = "returned"

\* C2: the process never ends with a non-zero exit status, through
\* Supervisor.run_stdin / run as through the run command of the CLI.
C2_ExitStatusZero ==
   (pc = "done" /\ call.op \in {"run", "bdb run"}) => out.exit_status = 0

\* C3: for every tool, a tool input with a protected path in a top-level
\* string or in a string element of a top-level list is blocked, before the
\* catalog or the classifier is consulted and whatever the enabled categories.
C3_ProtectedPathBlocks ==
   (Done("PreToolHook.handle") /\ Offending(call.hook_input.tool_input))
      => /\ IsBlock(out)
         /\ out.consulted = {"protected"}
         /\ out.llm_calls = 0

C3_Witness ==
   /\ Done("PreToolHook.handle")
   /\ call.hook_input.tool_name # "Bash"
   /\ OffendingInList(call.hook_input.tool_input)
   /\ ~call.config.categories.none
   /\ ~EnabledIn(call.config.categories, "ci_bypass")
   /\ IsBlock(out)

\* C4: a command that matches a rule of an enabled category and no
\* allow-list pattern is blocked by check_command, with a non-empty reason.
C4_EnabledRuleBlocks ==
   (/\ Done("check_command")
    /\ \E cat \in MatchedCategories(call.command) : EnabledIn(call.categories, cat)
    /\ ~MatchesAllowed(call.command))
      => out.is_forbidden /\ out.reason # ""

C4_Witness ==
   /\ Done("check_command")
   /\ ~call.categories.none
   /\ \E cat \in Categories : ~EnabledIn(call.categories, cat)
   /\ \E cat \in MatchedCategories(call.command) :
         EnabledIn(call.categories, cat) /\ out.reason \in ReasonsOf(cat)
   /\ ~MatchesAllowed(call.command)
   /\ out.is_forbidden

\* C5 as stated: check_command never blocks with the reason of a rule of a
\* category that is not enabled, a command that matches only rules of such
\* categories is allowed, and PreTool returns Allow for it unless the
\* classifier blocks.
C5_Original ==
   /\ Done("check_command") =>
         /\ out.is_forbidden =>
               \A cat \in Categories :
                  ~EnabledIn(call.categories, cat) => out.reason \notin ReasonsOf(cat)
         /\ OnlyDisabledMatch(call.command, call.categories) => ~out.is_forbidden
   /\ (/\ Done("PreToolHook.handle")
       /\ OnlyDisabledMatch(BashCommand(call.hook_input), call.config.categories))
         => \/ IsAllow(out)
            \/ IsBlock(out) /\ "classifier" \in out.consulted

\* C5, amended: check_command never blocks with the reason of a rule of a
\* category that is not enabled, a command that matches only rules of such
\* categories is allowed by check_command, and PreTool returns Allow for it
\* unless the protected-path guard or the classifier blocks.
C5_DisabledNeverBlocks ==
   /\ Done("check_command") =>
         /\ out.is_forbidden =>
               \A cat \in Categories :
                  ~EnabledIn(call.categories, cat) => out.reason \notin ReasonsOf(cat)
         /\ OnlyDisabledMatch(call.command, call.categories) => ~out.is_forbidden
   /\ (/\ Done("PreToolHook.handle")
       /\ OnlyDisabledMatch(BashCommand(call.hook_input), call.config.categories))
         => \/ IsAllow(out)
            \/ IsBlock(out) /\ "classifier" \in out.consulted
            \/ IsBlock(out) /\ out.consulted = {"protected"}

C5_Witness ==
   /\ Done("PreToolHook.handle")
   /\ OnlyDisabledMatch(BashCommand(call.hook_input), call.config.categories)
   /\ \E k \in 1..Len(call.config.categories.items) :
         call.config.categories.items[k] = <<"destructive_git", FALSE>>
   /\ IsAllow(out)

\* C6: with an LLM configured classify_command fails closed: blocked when
\* the call raises, times out, returns an error payload or content without a
\* valid decision; allowed only when the decision of the reply is "allow".
C6_FailsClosed ==
   (Done("classify_command") /\ call.llm_provider = "configured")
      => (~out.is_blocked <=>
             /\ call.reply.kind = "dict"
             /\ Get(call.reply.content, "decision", "") = "allow")

\* C7: with no LLM configured classify_command returns the verdict of the
\* fallback policy, allowed iff "allow" and blocked iff "block", makes no
\* LLM call and does not raise, for every command.
C7_FallbackVerdict ==
   (Done("classify_command") /\ NotConfigured(call.llm_provider))
      => /\ out.is_blocked <=> call.fallback = "block"
         /\ ~out.is_blocked <=> call.fallback = "allow"
         /\ out.llm_calls = 0
         /\ out.category = "none"

C7_Witness ==
   /\ Done("classify_command")
   /\ call.llm_provider = "unconfigured"
   /\ call.fallback = "allow"
   /\ ~out.is_blocked
   /\ out.llm_calls = 0

\* C8: needs_llm_classification is false for every command of the
\* always-safe list, true for every command of the ambiguous-intent list
\* (history digging such as git log, git show, git blame; encoded payloads;
\* remote scripts; broad deletion), and no command is on both lists.
C8_TwoLists ==
   Done("needs_llm_classification")
      => /\ MatchesAlwaysAllowed(call.command) => ~out.needs_llm
         /\ AmbiguousIntent(call.command) => out.needs_llm
         /\ ~(MatchesAlwaysAllowed(call.command) /\ AmbiguousIntent(call.command))

\* C9: with no LLM configured the Stop pipeline fails closed: a transcript
\* that reaches the arbitration stage, or ends at an earlier stage, is
\* answered Block without an LLM call; the answer is never Allow or Kill.
C9_NoLlmBlocks ==
   (Done("StopHook.handle") /\ NotConfigured(call.llm_provider))
      => /\ out.llm_calls = 0
         /\ "mentions" \in out.consulted => IsBlock(out)
         /\ out.status = "returned" => IsBlock(out) /\ ~out.killed

C9_Witness ==
   /\ Done("StopHook.handle")
   /\ call.llm_provider = "unconfigured"
   /\ "mentions" \in out.consulted
   /\ IsBlock(out)
   /\ out.result.message = KeepGoing \o "\n\nReferenced documents: @docs/plan.md"

\* C10: when the transcript is empty or unreadable (no path, no file, a file
\* that cannot be read, no line that parses) the decision is Block and the
\* LLM is not called.
C10_EmptyTranscriptBlocks ==
   (Done("StopHook.handle") /\ EmptyOrUnreadable(call.hook_input.transcript))
      => IsBlock(out) /\ out.llm_calls = 0

\* the messages the pipeline reads: the transcript is a file it can open and
\* every JSON line of it is an object
Readable(transcript) ==
   transcript.path = "file" /\ ~HasScalar(parse_transcript(transcript))

\* the latest assistant message carries no text, tool-use blocks only
NoAssistantText(transcript) ==
   /\ Readable(transcript)
   /\ HasAssistant(parse_transcript(transcript))
   /\ extract_last_assistant(parse_transcript(transcript)) = <<>>

\* C11: when the latest assistant message has no extractable text (only
\* tool-use blocks) the decision is Block and the LLM is not called, also
\* when an LLM is configured.
C11_NoAssistantTextBlocks ==
   (Done("StopHook.handle") /\ NoAssistantText(call.hook_input.transcript))
      => IsBlock(out) /\ out.llm_calls = 0

\* the text of the latest assistant message matches an evasion signature
EvasionSignature(transcript) ==
   /\ Readable(transcript)
   /\ FirstMatch(PERMISSION_SEEKING_PATTERNS,
                 extract_last_assistant(parse_transcript(transcript))) # 0

BeginsWith(message, prefix) ==
   Len(message) >= Len(prefix) /\ SubSeq(message, 1, Len(prefix)) = prefix

\* C12: when the text of the latest assistant message matches an evasion
\* signature the decision is Block with the fixed nudge and the signature
\* that matched, with zero LLM calls: the stages after the precheck are not
\* entered, whether an LLM is configured or not.
C12_EvasionSignatureBlocks ==
   (Done("StopHook.handle") /\ EvasionSignature(call.hook_input.transcript))
      => /\ IsBlock(out)
         /\ out.llm_calls = 0
         /\ out.consulted = {"transcript", "extract", "precheck"}
         /\ BeginsWith(out.result.message,
                       StickToThePlan \o "Permission-seeking detected: '")

C12_Witness ==
   /\ Done("StopHook.handle")
   /\ EvasionSignature(call.hook_input.transcript)
   /\ call.llm_provider = "configured"
   /\ call.reply.kind = "dict"
   /\ IsBlock(out)
   /\ out.llm_calls = 0

\* the arbitration stage was entered with an LLM configured and the LLM
\* answered with the decision d
ArbitrationReturned(d) ==
   /\ Done("StopHook.handle")
   /\ call.llm_provider = "configured"
   /\ "arbitration" \in out.consulted
   /\ call.reply.kind = "dict"
   /\ "decision" \in DOMAIN call.reply.content
   /\ call.reply.content.decision = d

RECURSIVE without_boilerplate(_, _)
without_boilerplate(mentions, k) ==
   IF k > Len(mentions) THEN <<>>
   ELSE (IF Concat(basename(mentions[k])) \in IGNORED_DOC_FILES THEN <<>>
         ELSE <<mentions[k]>>)
        \o without_boilerplate(mentions, k + 1)

ReferencedDocuments(transcript, disk) ==
   without_boilerplate(
      filter_valid_mentions(
         all_mentions(extract_all_user_messages(parse_transcript(transcript), 1)),
         disk, 1), 1)

LlmFailed(reply) ==
   \/ reply.kind \in {"raise", "notdict"}
   \/ reply.kind = "dict" /\ "error" \in DOMAIN reply.content

C17_FlagIgnored ==
   Done("StopHook.handle")
      => out = StopHook_handle(WithFlag(call.hook_input, "absent"),
                               call.llm_provider, call.reply, call.disk)

C17_Witness ==
   /\ Done("StopHook.handle")
   /\ "stop_hook_active" \in DOMAIN call.hook_input
   /\ call.hook_input.stop_hook_active
   /\ call.hook_input.transcript.path = ""
   /\ IsBlock(out)
   /\ out.result.message = KeepGoing

\* a pause is active for an invocation: the sentinel of its repository or
\* the global sentinel exists
PauseActive(in_repo) == (in_repo /\ localSentinel) \/ globalSentinel

\* the mode in force for an invocation: the mode file of its repository
\* when it names a mode, else the global one, else default
ModeInForce(in_repo) ==
   IF in_repo /\ modeFile.local \in Modes THEN modeFile.local
   ELSE IF modeFile.global \in Modes THEN modeFile.global
   ELSE "default"

IsEvent(name) ==
   /\ Done("Supervisor.handle")
   /\ call.raw.json = "object"
   /\ call.raw.hook_input.hook_event_name = name

\* C18: while a pause is active, through the local or the global sentinel,
\* Supervisor.handle returns Allow for every event: no pipeline runs (no
\* pattern check, no transcript read, no LLM call, no kill), and the pause
\* check comes before the mode check and the selection of the pipeline.
C18_PausedAllows ==
   (/\ Done("Supervisor.handle")
    /\ call.raw.json = "object"
    /\ PauseActive(call.env.in_repo))
      => /\ IsAllow(out)
         /\ out.result.reason = "BDB is paused"
         /\ out.llm_calls = 0
         /\ out.consulted = {}
         /\ ~out.killed

C18_Witness ==
   /\ IsEvent("Stop")
   /\ call.env.in_repo
   /\ localSentinel
   /\ ~globalSentinel
   /\ ModeInForce(call.env.in_repo) = "interactive"
   /\ "Stop" \in call.env.enabled
   /\ IsAllow(out)
   /\ out.result.reason = "BDB is paused"

\* C19: interactive mode short-circuits only Stop: with the mode
\* interactive and no pause active a Stop event is answered Allow without
\* the pipeline, and every other event is dispatched as in default mode, so
\* that a PreToolUse of `git reset --hard` is still answered Block.
C19_InteractiveOnlyStop ==
   (/\ Done("Supervisor.handle")
    /\ call.raw.json = "object"
    /\ ~PauseActive(call.env.in_repo)
    /\ ModeInForce(call.env.in_repo) = "interactive")
      => /\ IsEvent("Stop") =>
               /\ IsAllow(out)
               /\ out.result.reason = "Interactive mode"
               /\ out.llm_calls = 0
               /\ out.consulted = {}
         /\ ~IsEvent("Stop") =>
               out = dispatched(get_hook(call.raw.hook_input.hook_event_name,
                                         call.env.enabled),
                                call.raw.hook_input, call.env)
         /\ (/\ IsEvent("PreToolUse")
             /\ BashCommand(call.raw.hook_input) = <<"git", "reset", "--hard">>)
               => IsBlock(out)

\* the linked worktrees registered in a primary checkout
RegisteredWorktrees(repo) == {e \in repo.worktrees : e.is_dir /\ e.head.exists}

\* those whose name is found in the transcript; none without a transcript
FoundIn(repo, transcript) ==
   IF transcript.path # "file" THEN {}
   ELSE {e \in RegisteredWorktrees(repo) : Contains(transcript.text, e.name)}

\* the branch git shows for a checkout: its branch, or its detached HEAD
BranchShown(branch) == IF branch # "" THEN branch ELSE "(detached at 01234567)"

Identity(branch, path) ==
   update(OneKey("branch", BranchShown(branch)), OneKey("worktree_path", path))

\* C20: in a primary checkout with registered linked worktrees the git
\* identity is: the branch and the path of the worktree, when exactly one
\* worktree name is found in the transcript; the branch of the primary
\* checkout and no worktree path, when none is found or there is no
\* transcript; empty, when two or more are found.
C20_WorktreeIdentity ==
   (/\ Done("_get_git_context")
    /\ call.repo.kind = "primary"
    /\ RegisteredWorktrees(call.repo) # {})
      => /\ \A e \in FoundIn(call.repo, call.transcript) :
               (/\ FoundIn(call.repo, call.transcript) = {e}
                /\ e.head.readable
                /\ e.gitdir.exists)
                  => out.context = Identity(e.branch, e.path)
         /\ FoundIn(call.repo, call.transcript) = {}
               => out.context =
                     OneKey("branch",
                            BranchShown(IF call.repo.head = Detached THEN "" ELSE "main"))
         /\ Cardinality(FoundIn(call.repo, call.transcript)) >= 2
               => out.context = EmptyDict

C20_Witness ==
   /\ Done("_get_git_context")
   /\ call.repo.kind = "primary"
   /\ Cardinality(RegisteredWorktrees(call.repo)) = 2
   /\ Cardinality(FoundIn(call.repo, call.transcript)) = 1
   /\ out.context = Identity("feature/wt-alpha", "/work/wt-alpha")

\* C21: with the tiers ordered low < medium < high, no result of the
\* ToolFailure pipeline carries a hint labelled with a tier below the
\* configured threshold, with or without an LLM configured.
C21_NoHintBelowThreshold ==
   (/\ Done("ToolFailureHook.handle")
    /\ call.config.confidence_threshold \in Tiers
    /\ out.status = "returned")
      => \A tier \in Tiers :
            BeginsWith(out.result.additional_context, "[HINT (" \o tier \o ")]")
               => index(confidence_order, tier)
                     >= index(confidence_order, call.config.confidence_threshold)

\* the reply lacks the advice or the confidence
Incomplete(reply) ==
   reply.kind = "dict" /\ ~({"advice", "confidence"} \subseteq DOMAIN reply.content)

\* C22: when the LLM call of the ToolFailure pipeline fails (timeout,
\* transport error, unparseable or incomplete response) the outcome is no
\* hint, a plain Allow without injected context, for every threshold.
C22_LlmFailureNoHint ==
   (/\ Done("ToolFailureHook.handle")
    /\ call.llm_provider = "configured"
    /\ "llm" \in out.consulted
    /\ LlmFailed(call.reply) \/ Incomplete(call.reply))
      => IsAllow(out) /\ out.result.additional_context = ""

\* C23: a Block never carries injected context: every result with decision
\* Block of a pipeline or of the Supervisor has an empty additional_context
\* and is printed as {decision: "block", reason} without hookSpecificOutput;
\* an Allow without context is printed as the empty object and an Allow with
\* context as {hookSpecificOutput: {additionalContext}}.
C23_BlockWithoutContext ==
   /\ (/\ pc = "done"
       /\ call.op \in HandlerOps
       /\ IsBlock(out))
         => out.result.additional_context = ""
   /\ Done("to_dict")
         => /\ call.result.decision = "block"
                  => /\ DOMAIN out.stdout = {"decision", "reason"}
                     /\ out.stdout.decision = "block"
                     /\ out.stdout.reason \in {call.result.message, call.result.reason}
                     /\ out.stdout.reason # ""
            /\ (call.result.decision = "allow" /\ call.result.additional_context = "")
                  => out.stdout = Nothing
            /\ (call.result.decision = "allow" /\ call.result.additional_context # "")
                  => out.stdout =
                        [hookSpecificOutput |->
                            [additionalContext |-> call.result.additional_context]]

C23_Witness ==
   /\ Done("to_dict")
   /\ call.result.decision = "block"
   /\ BeginsWith(call.result.message, StickToThePlan)
   /\ out.stdout.decision = "block"
   /\ out.stdout.reason = call.result.message

\* the classifier gate of a PreToolUse event: a Bash command with no protected
\* path in the tool input, that the catalog did not block, and that
\* needs_llm_classification selects
Gated(hook_input, config) ==
   /\ hook_input.tool_name = "Bash"
   /\ check_protected_paths(hook_input.tool_input) = ""
   /\ BashCommand(hook_input) # <<>>
   /\ ~check_command(BashCommand(hook_input), config.categories).is_forbidden
   /\ needs_llm_classification(BashCommand(hook_input))

\* C24: the PreTool pipeline calls the LLM at most once per event, and only
\* for a Bash command with no protected path matched, that the catalog did
\* not block and that needs_llm_classification selects; every other command
\* is decided without the LLM, and when the classifier is reached its verdict
\* is the result.
C24_LlmGating ==
   Done("PreToolHook.handle")
      => /\ out.llm_calls <= 1
         /\ out.llm_calls = 1 => Gated(call.hook_input, call.config)
         /\ "classifier" \in out.consulted <=> Gated(call.hook_input, call.config)
         /\ ~Gated(call.hook_input, call.config) => out.llm_calls = 0
         /\ Gated(call.hook_input, call.config)
               => LET c == classify_command(BashCommand(call.hook_input), call.llm_provider,
                                            call.config.llm_fallback, call.reply)
                  IN  /\ out.status = "returned"
                      /\ out.llm_calls = c.llm_calls
                      /\ out.result = IF c.is_blocked THEN Block(c.message, "")
                                       ELSE Allow(c.reason)

C24_Witness ==
   /\ Done("PreToolHook.handle")
   /\ Gated(call.hook_input, call.config)
   /\ out.llm_calls = 1
   /\ IsBlock(out)

\* the rules check_command scans, in the order it scans them
ScannedRules(enabled_categories) ==
   get_enabled_patterns(IF enabled_categories.none THEN AllEnabled ELSE enabled_categories)

\* the positions of the scanned rules that the command matches
Matching(rules, command) == {k \in 1..Len(rules) : Search(rules[k].alts, command)}

\* C25: check_command evaluates the override allow-list first: a command
\* that matches an allow-list pattern is allowed with an empty reason even if
\* it matches enabled rules; otherwise the enabled rules are scanned in order
\* and the reason returned is that of the first rule that matches.
C25_AllowListFirst ==
   Done("check_command")
      => IF MatchesAllowed(call.command)
            THEN out = [is_forbidden |-> FALSE, reason |-> ""]
            ELSE LET rules == ScannedRules(call.categories)
                     hits  == Matching(rules, call.command)
                 IN  IF hits = {}
                        THEN out = [is_forbidden |-> FALSE, reason |-> ""]
                        ELSE \E k \in hits :
                                /\ \A n \in hits : k <= n
                                /\ out = [is_forbidden |-> TRUE, reason |-> rules[k].reason]

C25_Witness ==
   /\ Done("check_command")
   /\ MatchesAllowed(call.command)
   /\ Matching(ScannedRules(call.categories), call.command) # {}
   /\ out = [is_forbidden |-> FALSE, reason |-> ""]

\* the command with every checkout written co and every switch written sw
Aliased(command) ==
   [k \in DOMAIN command |->
      IF command[k] = "checkout" THEN "co"
      ELSE IF command[k] = "switch" THEN "sw"
      ELSE command[k]]

\* C28: the verb aliases are treated identically: writing co for checkout, or
\* sw for switch, leaves the verdict of check_command unchanged, for the deny
\* rules of every category and for the override allow-list.
C28_AliasesAlike ==
   Done("check_command")
      => out = check_command(Aliased(call.command), call.categories)

C28_Witness ==
   /\ Done("check_command")
   /\ Len(call.command) >= 2
   /\ call.command[2] = "checkout"
   /\ Aliased(call.command) # call.command
   /\ ~MatchesAllowed(call.command)
   /\ out.is_forbidden
   /\ check_command(Aliased(call.command), call.categories) = out

GitContribution(c) ==
   join("\n", git_part(IF c.config.inject_git_context
                          THEN get_git_context(c.repo, transcript_text(c.hook_input.transcript))
                          ELSE EmptyDict))

FilesContribution(c) ==
   LET found == find_default_files(c.disk)
       read  == IF c.config.quote_context_files
                   THEN read_context_files(c.disk, found) ELSE <<>>
   IN  join("\n", files_part(Split2(found, read, FALSE, 1), Split2(found, read, TRUE, 1)))

RefsContribution(c) == join("\n", refs_part(extract_user_refs(c.hook_input.transcript)))

\* the texts of a sequence that are not empty, in order
RECURSIVE NonEmpty(_)
NonEmpty(texts) ==
   IF texts = <<>> THEN <<>>
   ELSE (IF Head(texts) # "" THEN <<Head(texts)>> ELSE <<>>) \o NonEmpty(Tail(texts))

\* C26: the result of the PreCompact pipeline is always Allow; its injected
\* context is made, in this order, of the git identity line, the discovered
\* default files and the user-referenced paths, an empty contribution being
\* omitted; with no contribution at all it is a plain Allow with no context.
C26_ContextComposition ==
   (Done("PreCompactHook.handle") /\ out.status = "returned")
      => /\ IsAllow(out)
         /\ out.result.additional_context =
               join("\n", NonEmpty(<<GitContribution(call), FilesContribution(call),
                                     RefsContribution(call)>>))
         /\ (GitContribution(call) = "" /\ FilesContribution(call) = ""
                /\ RefsContribution(call) = "")
               => out.result.additional_context = ""

C26_Witness ==
   /\ Done("PreCompactHook.handle")
   /\ IsAllow(out)
   /\ GitContribution(call) = "Branch: feature/a | Worktree: /work/wt-alpha"
   /\ FilesContribution(call) = "Context: README.md"
   /\ RefsContribution(call) = "Refs: @docs/plan.md"
   /\ out.result.additional_context =
         GitContribution(call) \o "\n" \o FilesContribution(call)
            \o "\n" \o RefsContribution(call)

\* every reference of the user, written with its @, in order
RECURSIVE Mentioned(_, _)
Mentioned(user_refs, k) ==
   IF k > Len(user_refs) THEN <<>>
   ELSE <<"@" \o user_refs[k]>> \o Mentioned(user_refs, k + 1)

EndsWith(text, suffix) ==
   /\ Len(text) >= Len(suffix)
   /\ SubSeq(text, Len(text) - Len(suffix) + 1, Len(text)) = suffix

\* C27: every distinct @path mentioned in a user turn of the transcript
\* appears in the injected context, once and in first-mention order, whether
\* or not the file exists, and a default context file that does not exist in
\* the working directory never appears.
C27_EveryReferenceKept ==
   (Done("PreCompactHook.handle") /\ out.status = "returned")
      => LET user_refs == extract_user_refs(call.hook_input.transcript)
         IN  /\ user_refs # <<>>
                   => EndsWith(out.result.additional_context,
                               "Refs: " \o join(", ", Mentioned(user_refs, 1)))
             /\ \A k \in 1..Len(DEFAULT_CONTEXT_FILES) :
                   (/\ DEFAULT_CONTEXT_FILES[k] \notin call.disk.files
                    /\ \A j \in 1..Len(user_refs) : user_refs[j] # DEFAULT_CONTEXT_FILES[k])
                      => ~Contains(out.result.additional_context, DEFAULT_CONTEXT_FILES[k])

\* C30: the context-injecting pipelines never stop the agent: for every
\* input, with or without an LLM and whatever it returns, the PreCompact and
\* ToolFailure pipelines return a result whose decision is Allow.
C30_AlwaysAllow ==
   (Done("PreCompactHook.handle") \/ Done("ToolFailureHook.handle"))
      => IsAllow(out)

====
